---- MODULE Spec2Model ----
(***************************************************************************)
(* A model of the download lifecycle controller                            *)
(* (src/src/api/services/download.service.ts) and of the Puppeteer page    *)
(* pool (src/src/engine/platform/FetchProviderPuppeteer.ts).               *)
(*                                                                         *)
(* JavaScript runs one job at a time.  Every `await` of the source is a    *)
(* point where a handler is suspended, so every handler is cut into one    *)
(* action per stretch of code between two awaits.  `running` names the     *)
(* download whose createDownload call is still on the stack.               *)
(***************************************************************************)
EXTENDS Integers, Sequences, FiniteSets, TLC

(***************************************************************************)
(* Bounds of the model.                                                    *)
(***************************************************************************)
\* number of createDownload calls in one run, with requests of every kind
MaxDownloads == 1
\* number of createDownload calls in one run, with requests that export into
\* the same manga folder
MaxShared == 2
\* number of pages the browser may be asked to open in one run
MaxPages == 2
\* largest configured pool capacity that is tried
MaxCap == 1
\* number of concurrent borrowers of pool pages
NumCallers == 2
\* number of browser launches that succeed in one run
MaxSessions == 1
\* number of concurrent Fetch / FetchWindowPreloadScript calls
NumFetchers == 1
\* the deadline of waitForCloudflare, in poll intervals of 500 ms
MaxWaitTime == 2
\* longest header value that is tried
MaxLen == 3
\* latest reading of the clock, in retention windows
MaxClock == 2
\* longest chapter title that is tried, in words
MaxTokens == 3
\* number of tasks submitted to the scheduler in one run
MaxTasks == 4
\* the scheduler's concurrency cap
ConcurrencyCap == 2
\* number of browser launches that succeed in one run with cleanup calls
MaxLaunches == 2

VARIABLES
    \* ---- download.service.ts -------------------------------------------
    downloads,      \* DownloadService.downloads: id -> DownloadStatus
    nextId,         \* the next identity randomUUID() hands out
    running,        \* id whose createDownload call is on the stack, 0 if none
    pc,             \* id -> where processDownload of that id is suspended
    request,        \* id -> the DownloadRequest of that call
    loc,            \* id -> locals of processDownload / downloadAndExport
    returned,       \* id -> <<the record as it is when createDownload returns>>
    files,          \* the file system: exported artifacts
    dirs,           \* the file system: manga directories that exist
    temp,           \* StorageController: keys of staged temporary resources
    fetchLog,       \* id -> the page.Fetch calls made, in order, each
                    \*       <<chapterIndex, pageIndex, outcome>>
    exportLog,      \* id -> the chapters exporter.Export was called for
    lookups,        \* id -> catalog lookups made (plugin.Entries, manga.Entries)
    exported,       \* id -> <<outputPath that downloadAndExport returned>>
    reply,          \* what the last public query / delete call answered
    now,            \* Date.now(), in units of the retention window
    sweep,          \* locals of the running cleanupOldDownloads call
    givenTitle,     \* chapter.Title as downloadAndExport reads it
    chapterNumber,  \* <<what extractChapterNumber returned for it>>
    \* ---- the task scheduler --------------------------------------------
    priorityOf,     \* task -> its priority; tasks are numbered as submitted
    backlog,        \* priority -> the waiting tasks of that bucket, oldest first
    active,         \* the running tasks
    dispatched,     \* the tasks started so far, in the order they were started
    shutdown,       \* locals of the running cleanup call of the provider
    \* ---- FetchProviderPuppeteer.ts -------------------------------------
    maxBrowsers,    \* config.puppeteer.maxBrowsers
    browserPool,    \* FetchProviderPuppeteer.browserPool: idle pages (a stack)
    livePages,      \* pages created by browser.newPage() and not closed
    nextPage,       \* number of pages created so far
    cpc,            \* caller -> where its getPage / releasePage is suspended
    held,           \* caller -> page it has checked out, 0 if none
    browser,        \* FetchProviderPuppeteer.browser: a session, 0 for null
    connected,      \* the sessions whose browser.connected is true
    nextSession,    \* number of sessions launched so far
    pageSession,    \* page -> the session browser.newPage() created it on
    sess,           \* caller -> `browser` local of getPage, 0 if none
    ended,          \* <<caller, how>>: the getPage / releasePage call that ended last
    releases,       \* caller -> releasePage calls made by its running fetch call
    call,           \* caller -> locals of its Fetch / FetchWithBrowser /
                    \*           FetchWindowPreloadScript call
    preloads        \* the pages a preload script is registered on

\* the state no action of createDownload, processDownload, the queries, the
\* pool or the fetch calls writes
schedVars == <<priorityOf, backlog, active, dispatched>>
otherVars == <<now, sweep, givenTitle, chapterNumber, schedVars, shutdown>>
restVars == <<otherVars, preloads>>
serviceVars == <<downloads, nextId, running, pc, request, loc, returned, files,
                 dirs, temp, fetchLog, exportLog, lookups, exported, reply>>
dlVars == <<serviceVars, restVars>>
sessVars == <<browser, connected, nextSession, pageSession, sess, ended>>
fetchVars == <<call>>
poolVars == <<maxBrowsers, browserPool, livePages, nextPage, cpc, held, sessVars,
              releases, fetchVars, restVars>>
vars == <<dlVars, poolVars>>

Ids == 1..(IF MaxShared > MaxDownloads THEN MaxShared ELSE MaxDownloads)
Callers == 1..NumCallers
Fetchers == 1..NumFetchers

(***************************************************************************)
(* The external plugin registry: one source with one manga.  Titles are    *)
(* sequences of characters.  Chapter "e" has no pages.                     *)
(***************************************************************************)
Sources == {"s1"}
MangaIds == {<<"m", "1">>}
MangaTitle == <<"O", "n", "e", ":", "P">>
Catalog == <<"a", "e", "b">>
ChapterTitle(c) ==
    CASE c = "a" -> <<"C", "h", ".", "0", "0", "1">>
      [] c = "b" -> <<"V", "1", " ", "C", "h", "a", "p", "t", "e", "r", " ", "2", ".", "5">>
      [] OTHER   -> <<"E", "x", "?">>
PageCount(c) ==
    CASE c = "a" -> 2
      [] c = "b" -> 1
      [] OTHER   -> 0

(***************************************************************************)
(* extractChapterNumber: the four patterns, tried in order.                *)
(***************************************************************************)
Digit == {"0", "1", "2", "3", "4", "5", "6", "7", "8", "9"}
Space == {" "}

\* the /i flag, for the letters the patterns name
Lower(ch) ==
    CASE ch = "C" -> "c" [] ch = "H" -> "h" [] ch = "A" -> "a" [] ch = "P" -> "p"
      [] ch = "T" -> "t" [] ch = "E" -> "e" [] ch = "R" -> "r" [] OTHER -> ch

IsDigitAt(t, i) == i >= 1 /\ i <= Len(t) /\ t[i] \in Digit

\* \d+ from i (a digit): the index of the last digit of the run
RECURSIVE DigitsEnd(_, _)
DigitsEnd(t, i) == IF IsDigitAt(t, i + 1) THEN DigitsEnd(t, i + 1) ELSE i

\* (\d+(?:\.\d+)?) from i (a digit): the index of the last character captured
NumberEnd(t, i) ==
    LET j == DigitsEnd(t, i)
    IN  IF j + 1 <= Len(t) /\ t[j + 1] = "." /\ IsDigitAt(t, j + 2)
        THEN DigitsEnd(t, j + 2) ELSE j

\* \s* from i: the index of the first character that is no white space
RECURSIVE SkipSpace(_, _)
SkipSpace(t, i) == IF i <= Len(t) /\ t[i] \in Space THEN SkipSpace(t, i + 1) ELSE i

HasWordAt(t, i, w) ==
    /\ i + Len(w) - 1 <= Len(t)
    /\ \A k \in 1..Len(w) : Lower(t[i + k - 1]) = w[k]

\* /Ch\.?(\d+(?:\.\d+)?)/i at i: where the capture starts, 0 if no match at i
ChStartAt(t, i) ==
    IF ~HasWordAt(t, i, <<"c", "h">>) THEN 0
    ELSE IF i + 2 <= Len(t) /\ t[i + 2] = "." /\ IsDigitAt(t, i + 3) THEN i + 3
    ELSE IF IsDigitAt(t, i + 2) THEN i + 2
    ELSE 0

\* /Chapter\s*(\d+(?:\.\d+)?)/i at i
ChapterStartAt(t, i) ==
    IF ~HasWordAt(t, i, <<"c", "h", "a", "p", "t", "e", "r">>) THEN 0
    ELSE LET j == SkipSpace(t, i + 7) IN IF IsDigitAt(t, j) THEN j ELSE 0

\* /^(\d+(?:\.\d+)?)/ : only at the start of the title
LeadingStartAt(t, i) == IF i = 1 /\ IsDigitAt(t, 1) THEN 1 ELSE 0

\* /(\d+(?:\.\d+)?)/
AnyStartAt(t, i) == IF IsDigitAt(t, i) THEN i ELSE 0

\* where the capture of patterns[p] starts for a match at i, 0 if no match at i
StartAt(t, i, p) ==
    CASE p = 1 -> ChStartAt(t, i)
      [] p = 2 -> ChapterStartAt(t, i)
      [] p = 3 -> LeadingStartAt(t, i)
      [] OTHER -> AnyStartAt(t, i)

\* chapterTitle.match(patterns[p]): the capture of the leftmost match, <<>> if none
Capture(t, p) ==
    LET hits == {i \in 1..Len(t) : StartAt(t, i, p) # 0}
    IN  IF hits = {} THEN <<>>
        ELSE LET i == CHOOSE h \in hits : \A g \in hits : h <= g
                 s == StartAt(t, i, p)
             IN  SubSeq(t, s, NumberEnd(t, s))

RECURSIVE DropLeadingZeros(_)
DropLeadingZeros(d) ==
    IF Len(d) > 1 /\ d[1] = "0" THEN DropLeadingZeros(Tail(d)) ELSE d

RECURSIVE DropTrailingZeros(_)
DropTrailingZeros(d) ==
    IF Len(d) > 0 /\ d[Len(d)] = "0" THEN DropTrailingZeros(SubSeq(d, 1, Len(d) - 1)) ELSE d

\* parseFloat(m).toString() of a capture m = digits [ "." digits ]
NumToString(m) ==
    LET dots == {i \in 1..Len(m) : m[i] = "."}
        dot  == IF dots = {} THEN Len(m) + 1 ELSE CHOOSE i \in dots : TRUE
        int  == DropLeadingZeros(SubSeq(m, 1, dot - 1))
        frac == DropTrailingZeros(SubSeq(m, dot + 1, Len(m)))
    IN  IF frac = <<>> THEN int ELSE int \o <<".">> \o frac

\* SanitizeFileName (StorageController): characters a file name may not hold
\* are replaced
Illegal == {":", "?", "/", "*"}
SanitizeFileName(name) ==
    [i \in 1..Len(name) |-> IF name[i] \in Illegal THEN "_" ELSE name[i]]

\* a pattern list with the fallback pattern first
FirstMatchAnyNumber(t, p) == Capture(t, 4)

\* the first pattern that matches, in the order of the `patterns` array
RECURSIVE FirstMatch(_, _)
FirstMatch(t, p) ==
    IF p > 4 THEN <<>>
    ELSE IF Capture(t, p) # <<>> THEN Capture(t, p)
    ELSE FirstMatch(t, p + 1)

extractChapterNumber(chapterTitle) ==
    LET match == FirstMatch(chapterTitle, 1)
    IN  IF match # <<>> THEN NumToString(match)
        ELSE SanitizeFileName(chapterTitle)

(***************************************************************************)
(* Requests (the inputs of createDownload).  A request differs from the    *)
(* plain one (known source and manga, chapter "a", cbz, default output     *)
(* root) in at most one field.                                             *)
(***************************************************************************)
ChapterLists == {<<"a">>, <<"b">>, <<"b", "a">>, <<"e", "b">>, <<"e">>, <<"x", "y">>}
Formats == {"cbz", "images", "pdf", "epub"}
PlainRequest ==
    [sourceId |-> "s1", mangaId |-> <<"m", "1">>, chapterIds |-> <<"a">>,
     format |-> "cbz", downloadPath |-> ""]
AllRequests ==
    [sourceId : {"s1", "sX"}, mangaId : {<<"m", "1">>, <<"m", "X">>},
     chapterIds : ChapterLists, format : Formats, downloadPath : {"", "custom"}]
Requests ==
    {r \in AllRequests :
        Cardinality({k \in DOMAIN r : r[k] # PlainRequest[k]}) <= 1}
\* requests for one chapter each of the same manga, into the same output root
SharedRequests ==
    {r \in Requests : /\ r.sourceId = "s1" /\ r.mangaId = <<"m", "1">>
                       /\ r.chapterIds \in {<<"a">>, <<"b">>}
                       /\ r.format \in {"cbz", "images"} /\ r.downloadPath = ""}

\* config.storage.downloads
downloadDir == "downloads"

Range(f) == {f[i] : i \in DOMAIN f}
Merge(rec, updates) ==
    [k \in DOMAIN rec |-> IF k \in DOMAIN updates THEN updates[k] ELSE rec[k]]

(***************************************************************************)
(* Errors: an error message is a tuple, its first element the kind.        *)
(***************************************************************************)
SourceNotFound(sourceId) == <<"SourceNotFound", sourceId>>
MangaNotFound(mangaId) == <<"MangaNotFound", mangaId>>
\* a message built from the (empty) selection instead of the catalog
NoValidChaptersOfSelection(catalog, requested) ==
    <<"No valid chapters found to download", <<>>, requested>>
NoValidChapters(catalog, requested) ==
    <<"No valid chapters found to download", catalog, requested>>
PageFailed(pageNumber) == <<"Failed to download page", pageNumber>>
UnsupportedFormat(format) == <<"Unsupported format", format>>
NoChaptersDownloaded == <<"No chapters were successfully downloaded">>

(***************************************************************************)
(* The status record and its updates.                                      *)
(***************************************************************************)
NewStatus(r) ==
    [status |-> "queued", progress |-> 0, mangaId |-> r.mangaId,
     mangaTitle |-> <<>>, downloadPath |-> r.downloadPath, error |-> <<>>,
     createdAt |-> now]

\* an update that is applied to every record of the table
updateEveryStatus(table, id, updates) ==
    [i \in DOMAIN table |-> Merge(table[i], updates)]

\* an update that creates the record when it is gone
setDownloadStatus(table, id, updates) ==
    IF id \in DOMAIN table
    THEN [table EXCEPT ![id] = Merge(table[id], updates)]
    ELSE (id :> Merge(NewStatus(PlainRequest), updates)) @@ table

\* updateDownloadStatus: Object.assign on the record, nothing if it is gone
updateDownloadStatus(table, id, updates) ==
    IF id \in DOMAIN table
    THEN [table EXCEPT ![id] = Merge(table[id], updates)]
    ELSE table

\* a processDownload that marks the record as processing at once
DownloadingUpdateSkipsAhead == [status |-> "processing"]
DownloadingUpdate == [status |-> "downloading"]
ProcessingUpdate(title) == [status |-> "processing", progress |-> 0, mangaTitle |-> title]
CompletedUpdate == [status |-> "completed", progress |-> 100]
FailedUpdate(err) == [status |-> "failed", error |-> err]

\* Math.floor((chapterIndex / chapters.length) * 90)
ChapterStartProgress(chapterIndex, nChapters) == (chapterIndex * 90) \div nChapters

\* the progress before the page instead of after it:
\* (chapterIndex + pageIndex / pages.length) / chapters.length * 90
PageProgressBeforePage(chapterIndex, pageIndex, nPages, nChapters) ==
    ((chapterIndex * nPages + pageIndex) * 90) \div (nPages * nChapters)

\* a page progress that does not reserve the last 10% for the export
PageProgressNoReserve(chapterIndex, pageIndex, nPages, nChapters) ==
    ((chapterIndex * nPages + pageIndex + 1) * 100) \div (nPages * nChapters)

\* Math.floor(((chapterIndex + (pageIndex + 1) / pages.length) / chapters.length) * 90)
PageProgress(chapterIndex, pageIndex, nPages, nChapters) ==
    ((chapterIndex * nPages + pageIndex + 1) * 90) \div (nPages * nChapters)

\* WebsitePlugins.find(p => p.Identifier === request.sourceId)
PluginFound(sourceId) == sourceId \in Sources

\* a lookup whose result is not checked
MangaFoundUnchecked(mangaId) == TRUE

\* mangas.Value.find(m => m.Identifier === request.mangaId)
MangaFound(mangaId) == mangaId \in MangaIds

\* chapters.Value.filter(c => request.chapterIds.includes(c.Identifier))
ChaptersToDownload(r) == SelectSeq(Catalog, LAMBDA c : c \in Range(r.chapterIds))

NoPath == [root |-> "", folder |-> <<>>, name |-> <<>>]

\* the outputPath of a chapter: <downloadPath>/<sanitized manga title>/chapter_<n>[.cbz]
OutputPath(root, format, chapter) ==
    [root   |-> root,
     folder |-> SanitizeFileName(MangaTitle),
     name   |-> <<"chapter_">> \o extractChapterNumber(ChapterTitle(chapter))
                \o (IF format = "cbz" THEN <<".cbz">> ELSE <<>>)]

PathOf(f) == [root |-> f.root, folder |-> f.folder, name |-> f.name]

(***************************************************************************)
(* The task scheduler: Submit either starts a task at once or puts it in   *)
(* the bucket of its priority; when a running task completes, the next     *)
(* task is taken from the highest bucket that is not empty.                *)
(***************************************************************************)
\* Low, Normal, High
Priorities == 0..2

InitScheduler ==
    /\ priorityOf = <<>>
    /\ backlog = [p \in Priorities |-> <<>>]
    /\ active = {}
    /\ dispatched = <<>>

\* a choice that serves the lowest bucket first
LowestWaiting(buckets) ==
    CHOOSE p \in Priorities :
        buckets[p] # <<>> /\ \A q \in Priorities : buckets[q] # <<>> => p <= q

\* the bucket the next task is taken from, provided one is not empty
HighestWaiting(buckets) ==
    CHOOSE p \in Priorities :
        buckets[p] # <<>> /\ \A q \in Priorities : buckets[q] # <<>> => q <= p

\* no cleanupOldDownloads call is running
NoSweep == [step |-> "none", now |-> 0, todo |-> <<>>, mangaDir |-> <<>>]

NoLocals ==
    [chapters |-> <<>>, chapterIndex |-> 0, pageIndex |-> 0, resourceMap |-> <<>>,
     outputPath |-> NoPath, exportOk |-> FALSE, error |-> <<>>]

InitDownloads ==
    /\ downloads = <<>>
    /\ nextId = 1
    /\ running = 0
    /\ pc = [i \in Ids |-> "idle"]
    /\ request = [i \in Ids |-> PlainRequest]
    /\ loc = [i \in Ids |-> NoLocals]
    /\ returned = [i \in Ids |-> <<>>]
    /\ files = {}
    /\ dirs = {}
    /\ temp = {}
    /\ fetchLog = [i \in Ids |-> <<>>]
    /\ exportLog = [i \in Ids |-> <<>>]
    /\ lookups = [i \in Ids |-> {}]
    /\ exported = [i \in Ids |-> <<>>]
    /\ reply = [op |-> "", id |-> 0, kind |-> "", path |-> NoPath]
    /\ now = 0
    /\ sweep = NoSweep
    /\ givenTitle = <<>>
    /\ chapterNumber = <<>>
    /\ InitScheduler

(***************************************************************************)
(* createDownload and processDownload.                                     *)
(***************************************************************************)
\* a throw inside processDownload: its promise is rejected, and the catch
\* callback of createDownload is the next job to run
Throw(id, err) ==
    /\ pc' = [pc EXCEPT ![id] = "thrown"]
    /\ loc' = [loc EXCEPT ![id].error = err]
    /\ running' = id

Suspend(id, at) ==
    /\ pc' = [pc EXCEPT ![id] = at]
    /\ running' = 0

\* createDownload, to `await fs.mkdir(downloadPath)` when a custom path is
\* requested, else to the call of processDownload; at most `limit` calls
Create(r, limit) ==
    /\ running = 0
    /\ nextId <= limit
    /\ request' = [request EXCEPT ![nextId] = r]
    /\ nextId' = nextId + 1
    /\ IF r.downloadPath # ""
       THEN /\ pc' = [pc EXCEPT ![nextId] = "mkpath"]
            /\ UNCHANGED <<downloads, running>>
       ELSE /\ downloads' = (nextId :> NewStatus(r)) @@ downloads
            /\ pc' = [pc EXCEPT ![nextId] = "start"]
            /\ running' = nextId
    /\ UNCHANGED <<loc, returned, files, dirs, temp, fetchLog, exportLog, lookups,
                   exported, reply, poolVars>>

InvalidDownloadPath(errorMessage) == <<"Invalid download path", errorMessage>>

\* a catch block that logs the failure of fs.mkdir and goes on
CustomPathMadeAnyway(id, ok) ==
    /\ running = 0
    /\ pc[id] = "mkpath"
    /\ loc' = [loc EXCEPT ![id].error = IF ok THEN <<>> ELSE <<"mkdir failed">>]
    /\ downloads' = (id :> NewStatus(request[id])) @@ downloads
    /\ pc' = [pc EXCEPT ![id] = "start"]
    /\ running' = id
    /\ UNCHANGED <<nextId, request, returned, files, dirs, temp, fetchLog,
                   exportLog, lookups, exported, reply, poolVars>>

\* createDownload after `await fs.mkdir(downloadPath, { recursive: true })`:
\* the record is set and processDownload called, or, when mkdir threw, the
\* call is rejected with 'Invalid download path: ...'
CustomPathMade(id, ok) ==
    /\ running = 0
    /\ pc[id] = "mkpath"
    /\ IF ok
       THEN /\ downloads' = (id :> NewStatus(request[id])) @@ downloads
            /\ pc' = [pc EXCEPT ![id] = "start"]
            /\ running' = id
            /\ UNCHANGED <<loc, reply>>
       ELSE /\ loc' = [loc EXCEPT ![id].error = <<"mkdir failed">>]
            /\ pc' = [pc EXCEPT ![id] = "rejected"]
            /\ reply' = [op |-> "create", id |-> id,
                         kind |-> InvalidDownloadPath(<<"mkdir failed">>)[1],
                         path |-> NoPath]
            /\ UNCHANGED <<downloads, running>>
    /\ UNCHANGED <<nextId, request, returned, files, dirs, temp, fetchLog,
                   exportLog, lookups, exported, poolVars>>

CreateDownload(r) == Create(r, MaxDownloads)
CreateShared(r) == Create(r, MaxShared)

\* processDownload, called by createDownload, to its first await
ProcessStart(id) ==
    /\ running = id
    /\ pc[id] = "start"
    /\ downloads' = updateDownloadStatus(downloads, id, DownloadingUpdate)
    /\ IF ~PluginFound(request[id].sourceId)
       THEN /\ Throw(id, SourceNotFound(request[id].sourceId))
            /\ UNCHANGED lookups
       ELSE /\ pc' = [pc EXCEPT ![id] = "plugin"]
            /\ lookups' = [lookups EXCEPT ![id] = @ \cup {"mangas"}]
            /\ UNCHANGED <<loc, running>>
    /\ UNCHANGED <<nextId, request, returned, files, dirs, temp, fetchLog,
                   exportLog, exported, reply, poolVars>>

\* createDownload: return status
CreateReturn(id) ==
    /\ running = id
    /\ pc[id] \in {"plugin", "thrown"}
    /\ returned[id] = <<>>
    /\ returned' = [returned EXCEPT ![id] = <<downloads[id]>>]
    /\ running' = IF pc[id] = "thrown" THEN id ELSE 0
    /\ UNCHANGED <<downloads, nextId, pc, request, loc, files, dirs, temp,
                   fetchLog, exportLog, lookups, exported, reply, poolVars>>

\* a catch callback that only logs the error
CatchHandlerLogsOnly(id) ==
    /\ running = id
    /\ pc[id] = "thrown"
    /\ returned[id] # <<>>
    /\ pc' = [pc EXCEPT ![id] = "done"]
    /\ running' = 0
    /\ UNCHANGED <<downloads, nextId, request, loc, returned, files, dirs, temp,
                   fetchLog, exportLog, lookups, exported, reply, poolVars>>

\* the catch callback createDownload attached to processDownload
CatchHandler(id) ==
    /\ running = id
    /\ pc[id] = "thrown"
    /\ returned[id] # <<>>
    /\ downloads' = updateDownloadStatus(downloads, id, FailedUpdate(loc[id].error))
    /\ pc' = [pc EXCEPT ![id] = "done"]
    /\ running' = 0
    /\ UNCHANGED <<nextId, request, loc, returned, files, dirs, temp, fetchLog,
                   exportLog, lookups, exported, reply, poolVars>>

\* after `await plugin.Entries`: find the manga
ResolveManga(id) ==
    /\ running = 0
    /\ pc[id] = "plugin"
    /\ IF ~MangaFound(request[id].mangaId)
       THEN /\ Throw(id, MangaNotFound(request[id].mangaId))
            /\ UNCHANGED lookups
       ELSE /\ Suspend(id, "manga")
            /\ lookups' = [lookups EXCEPT ![id] = @ \cup {"chapters"}]
            /\ UNCHANGED loc
    /\ UNCHANGED <<downloads, nextId, request, returned, files, dirs, temp,
                   fetchLog, exportLog, exported, reply, poolVars>>

\* after `await manga.Entries`: filter the chapters, enter downloadAndExport
\* and start on its first chapter
ResolveChapters(id) ==
    /\ running = 0
    /\ pc[id] = "manga"
    /\ LET chapters == ChaptersToDownload(request[id])
       IN  IF Len(chapters) = 0
           THEN /\ Throw(id, NoValidChapters(Catalog, request[id].chapterIds))
                /\ UNCHANGED downloads
           ELSE /\ downloads' =
                      updateDownloadStatus(
                          updateDownloadStatus(downloads, id, ProcessingUpdate(MangaTitle)),
                          id, [progress |-> ChapterStartProgress(0, Len(chapters))])
                /\ loc' = [loc EXCEPT ![id].chapters = chapters,
                                      ![id].chapterIndex = 0]
                /\ Suspend(id, "update")
    /\ UNCHANGED <<nextId, request, returned, files, dirs, temp, fetchLog,
                   exportLog, lookups, exported, reply, poolVars>>

(***************************************************************************)
(* downloadAndExport: the chapter loop.                                    *)
(***************************************************************************)
CurrentChapter(id) == loc[id].chapters[loc[id].chapterIndex + 1]

\* after `await chapter.Update()`: skip a chapter with no pages, else call
\* page.Fetch for its first page
ChapterUpdated(id, ok) ==
    /\ running = 0
    /\ pc[id] = "update"
    /\ LET l == loc[id]
           n == Len(l.chapters)
       IN  IF ~ok
           THEN /\ Throw(id, <<"chapter.Update failed">>)
                /\ UNCHANGED <<downloads, fetchLog>>
           ELSE IF PageCount(CurrentChapter(id)) = 0
           THEN IF l.chapterIndex + 1 < n
                THEN /\ loc' = [loc EXCEPT ![id].chapterIndex = @ + 1]
                     /\ downloads' = updateDownloadStatus(downloads, id,
                            [progress |-> ChapterStartProgress(l.chapterIndex + 1, n)])
                     /\ UNCHANGED <<pc, running, fetchLog>>
                ELSE /\ Throw(id, NoChaptersDownloaded)
                     /\ UNCHANGED <<downloads, fetchLog>>
           ELSE /\ loc' = [loc EXCEPT ![id].pageIndex = 0, ![id].resourceMap = <<>>]
                /\ fetchLog' = [fetchLog EXCEPT ![id] = Append(@, <<l.chapterIndex, 0, "pending">>)]
                /\ Suspend(id, "fetch")
                /\ UNCHANGED downloads
    /\ UNCHANGED <<nextId, request, returned, files, dirs, temp, exportLog,
                   lookups, exported, reply, poolVars>>

\* a catch block that logs the error and goes on to the export
PageErrorSwallowed(id) ==
    /\ loc' = [loc EXCEPT ![id].outputPath =
                   OutputPath(downloadDir, "cbz", CurrentChapter(id))]
    /\ Suspend(id, "mkdir")

\* the catch block of the page loop: rethrow as "Failed to download page N"
PageError(id) == Throw(id, PageFailed(loc[id].pageIndex + 1))

\* after `await page.Fetch(...)`: call SaveTemporary
PageFetched(id, ok) ==
    /\ running = 0
    /\ pc[id] = "fetch"
    /\ fetchLog' = [fetchLog EXCEPT ![id][Len(fetchLog[id])][3] =
                                      IF ok THEN "ok" ELSE "failed"]
    /\ IF ok
       THEN Suspend(id, "save") /\ UNCHANGED loc
       ELSE PageError(id)
    /\ UNCHANGED <<downloads, nextId, request, returned, files, dirs, temp,
                   exportLog, lookups, exported, reply, poolVars>>

\* the key SaveTemporary returns: it names the stored bytes, those of the
\* page that download `id` fetched as page `pageIndex` of its chapter
SaveTemporary(id, chapterIndex, pageIndex) == <<id, chapterIndex, pageIndex>>

\* a map filled like an array, by position of arrival
SetResourcePushed(map, pageIndex, tempKey) ==
    ((Cardinality(DOMAIN map) + 1) :> tempKey) @@ map

\* resourceMap.set(pageIndex, tempKey)
SetResource(map, pageIndex, tempKey) ==
    [i \in DOMAIN map \cup {pageIndex} |-> IF i = pageIndex THEN tempKey ELSE map[i]]

\* after `await storageController.SaveTemporary(...)`: record the key, report
\* progress, then fetch the next page or, after the last one, prepare the export
PageSaved(id, ok) ==
    /\ running = 0
    /\ pc[id] = "save"
    /\ LET l      == loc[id]
           nPages == PageCount(CurrentChapter(id))
           format == request[id].format
           root   == IF request[id].downloadPath # ""
                     THEN request[id].downloadPath ELSE downloadDir
           tempKey == SaveTemporary(id, l.chapterIndex, l.pageIndex)
       IN  IF ~ok
           THEN /\ PageError(id)
                /\ UNCHANGED <<downloads, temp, fetchLog>>
           ELSE /\ temp' = temp \cup {tempKey}
                /\ downloads' = updateDownloadStatus(downloads, id,
                       [progress |-> PageProgress(l.chapterIndex, l.pageIndex,
                                                  nPages, Len(l.chapters))])
                /\ IF l.pageIndex + 1 < nPages
                   THEN /\ loc' = [loc EXCEPT ![id].resourceMap = SetResource(@, l.pageIndex, tempKey),
                                             ![id].pageIndex = @ + 1]
                        /\ fetchLog' = [fetchLog EXCEPT ![id] =
                               Append(@, <<l.chapterIndex, l.pageIndex + 1, "pending">>)]
                        /\ Suspend(id, "fetch")
                   ELSE IF format \notin {"cbz", "images"}
                   THEN /\ pc' = [pc EXCEPT ![id] = "thrown"]
                        /\ running' = id
                        /\ loc' = [loc EXCEPT ![id].resourceMap = SetResource(@, l.pageIndex, tempKey),
                                             ![id].error = UnsupportedFormat(format)]
                        /\ UNCHANGED fetchLog
                   ELSE /\ loc' = [loc EXCEPT ![id].resourceMap = SetResource(@, l.pageIndex, tempKey),
                                             ![id].outputPath =
                                                 OutputPath(root, format, CurrentChapter(id))]
                        /\ Suspend(id, "mkdir")
                        /\ UNCHANGED fetchLog
    /\ UNCHANGED <<nextId, request, returned, files, dirs, exportLog, lookups,
                   exported, reply, poolVars>>

\* after `await fs.mkdir(path.dirname(outputPath))`: call exporter.Export
MkdirDone(id, ok) ==
    /\ running = 0
    /\ pc[id] = "mkdir"
    /\ IF ok
       THEN /\ dirs' = dirs \cup {<<loc[id].outputPath.root, loc[id].outputPath.folder>>}
            /\ exportLog' = [exportLog EXCEPT ![id] = Append(@, loc[id].chapterIndex)]
            /\ Suspend(id, "export")
            /\ UNCHANGED loc
       ELSE /\ Throw(id, <<"mkdir failed">>)
            /\ UNCHANGED <<dirs, exportLog>>
    /\ UNCHANGED <<downloads, nextId, request, returned, files, temp, fetchLog,
                   lookups, exported, reply, poolVars>>

\* what an export leaves at outputPath: "ok" the artifact, "partial" a part of
\* it, "none" nothing
ExportOutcomes == {"ok", "partial", "none"}

Artifact(id, path, format, whole) ==
    [root |-> path.root, folder |-> path.folder, name |-> path.name,
     kind |-> IF format = "cbz" THEN "file" ELSE "dir", by |-> id, whole |-> whole]

\* after `await exporter.Export(...)`: the finally block calls RemoveTemporary
ExportDone(id, outcome) ==
    /\ running = 0
    /\ pc[id] = "export"
    /\ LET path == loc[id].outputPath
       IN  files' = IF outcome = "none" THEN files
                    ELSE {f \in files : PathOf(f) # path}
                         \cup {Artifact(id, path, request[id].format, outcome = "ok")}
    /\ loc' = [loc EXCEPT ![id].exportOk = (outcome = "ok")]
    /\ Suspend(id, "remove")
    /\ UNCHANGED <<downloads, nextId, request, returned, dirs, temp, fetchLog,
                   exportLog, lookups, exported, reply, poolVars>>

\* a chapter loop that goes on to the next chapter after an export
TempRemovedContinues(id) ==
    /\ running = 0
    /\ pc[id] = "remove"
    /\ temp' = temp \ Range(loc[id].resourceMap)
    /\ IF ~loc[id].exportOk
       THEN /\ Throw(id, <<"export failed">>)
            /\ UNCHANGED <<downloads, exported>>
       ELSE IF loc[id].chapterIndex + 1 < Len(loc[id].chapters)
       THEN /\ loc' = [loc EXCEPT ![id].chapterIndex = @ + 1]
            /\ Suspend(id, "update")
            /\ UNCHANGED <<downloads, exported>>
       ELSE /\ exported' = [exported EXCEPT ![id] = <<loc[id].outputPath>>]
            /\ downloads' = updateDownloadStatus(downloads, id, CompletedUpdate)
            /\ Suspend(id, "done")
            /\ UNCHANGED loc
    /\ UNCHANGED <<nextId, request, returned, files, dirs, fetchLog, exportLog,
                   lookups, reply, poolVars>>

\* after `await storageController.RemoveTemporary(...)`: downloadAndExport
\* returns outputPath (or rethrows the export's error) and processDownload
\* records the completion
TempRemoved(id) ==
    /\ running = 0
    /\ pc[id] = "remove"
    /\ temp' = temp \ Range(loc[id].resourceMap)
    /\ IF loc[id].exportOk
       THEN /\ exported' = [exported EXCEPT ![id] = <<loc[id].outputPath>>]
            /\ downloads' = updateDownloadStatus(downloads, id, CompletedUpdate)
            /\ Suspend(id, "done")
            /\ UNCHANGED loc
       ELSE /\ Throw(id, <<"export failed">>)
            /\ UNCHANGED <<downloads, exported>>
    /\ UNCHANGED <<nextId, request, returned, files, dirs, fetchLog, exportLog,
                   lookups, reply, poolVars>>

(***************************************************************************)
(* The public queries and deleteDownload.                                  *)
(***************************************************************************)
\* getDownload: <<the record>>, or <<>> for Errors.DownloadNotFound
getDownload(id) == IF id \in DOMAIN downloads THEN <<downloads[id]>> ELSE <<>>

\* a check that lets every finished download through, failed ones too
NotFinishedYet(download) == download.status \notin {"completed", "failed"}

\* download.status !== 'completed'
NotCompletedYet(download) == download.status # "completed"

\* fs.readdir(mangaDir): the entries of the manga directory
Readdir(root, folder) == {f \in files : f.root = root /\ f.folder = folder}

\* getDownloadFilePath: every answer it can give in the current state.  The
\* order of fs.readdir is the file system's, so entries[0] is any entry.
getDownloadFilePath(id) ==
    IF getDownload(id) = <<>>
    THEN {[kind |-> "DownloadNotFound", path |-> NoPath]}
    ELSE LET download == downloads[id]
             folderName == IF download.mangaTitle # <<>>
                           THEN SanitizeFileName(download.mangaTitle)
                           ELSE SanitizeFileName(download.mangaId)
             baseDir == IF download.downloadPath # ""
                        THEN download.downloadPath ELSE downloadDir
         IN  IF NotCompletedYet(download)
             THEN {[kind |-> "Download is not completed yet", path |-> NoPath]}
             ELSE IF <<baseDir, folderName>> \notin dirs
                     \/ Readdir(baseDir, folderName) = {}
             THEN {[kind |-> "NotFound", path |-> NoPath]}
             ELSE {[kind |-> "path", path |-> PathOf(f)] :
                       f \in Readdir(baseDir, folderName)}

\* the identities a client can ask about: those createDownload has returned
\* or will return
Known == {i \in 1..(nextId - 1) : pc[i] \notin {"mkpath", "rejected"}}

GetDownloadFilePath(id) ==
    /\ running = 0
    /\ id \in Known
    /\ \E answer \in getDownloadFilePath(id) :
           reply' = [op |-> "file", id |-> id, kind |-> answer.kind, path |-> answer.path]
    /\ UNCHANGED <<downloads, nextId, running, pc, request, loc, returned, files,
                   dirs, temp, fetchLog, exportLog, lookups, exported, poolVars>>

\* fs.unlink(filePath): removes a file; fails on a directory
Unlink(fileSet, path) ==
    {f \in fileSet : ~(PathOf(f) = path /\ f.kind = "file")}

\* deleteDownload, from its call to its return: what it does to the table and
\* the files, and what it answers
deleteDownload(id) ==
    IF getDownload(id) = <<>>
    THEN /\ reply' = [op |-> "delete", id |-> id, kind |-> "DownloadNotFound",
                      path |-> NoPath]
         /\ UNCHANGED <<downloads, files>>
    ELSE /\ IF downloads[id].status = "completed"
            THEN \E answer \in getDownloadFilePath(id) :
                     /\ files' = IF answer.kind = "path"
                                 THEN Unlink(files, answer.path) ELSE files
                     /\ reply' = [op |-> "delete", id |-> id, kind |-> "completed",
                                  path |-> answer.path]
            ELSE /\ files' = files
                 /\ reply' = [op |-> "delete", id |-> id, kind |-> "deleted",
                              path |-> NoPath]
         /\ downloads' = [i \in DOMAIN downloads \ {id} |-> downloads[i]]

DeleteDownload(id) ==
    /\ running = 0
    /\ id \in Known
    /\ deleteDownload(id)
    /\ UNCHANGED <<nextId, running, pc, request, loc, returned, dirs, temp,
                   fetchLog, exportLog, lookups, exported, poolVars>>

Step(id) ==
    \/ ProcessStart(id)
    \/ CreateReturn(id)
    \/ CatchHandler(id)
    \/ ResolveManga(id)
    \/ ResolveChapters(id)
    \/ \E ok \in BOOLEAN : ChapterUpdated(id, ok)
    \/ \E ok \in BOOLEAN : PageFetched(id, ok)
    \/ \E ok \in BOOLEAN : PageSaved(id, ok)
    \/ \E ok \in BOOLEAN : MkdirDone(id, ok)
    \/ \E outcome \in ExportOutcomes : ExportDone(id, outcome)
    \/ TempRemoved(id)
    \/ GetDownloadFilePath(id)
    \/ DeleteDownload(id)

Next ==
    \/ \E r \in Requests : CreateDownload(r)
    \/ \E id \in Ids, ok \in BOOLEAN : CustomPathMade(id, ok)
    \/ \E id \in Ids : Step(id)

NextShared ==
    \/ \E r \in SharedRequests : CreateShared(r)
    \/ \E id \in Ids : Step(id)

\* the locals of a fetch call; step "none": no call of this caller is running
NoCall ==
    [op |-> "none", method |-> "", preload |-> FALSE, delay |-> 0,
     step |-> "none", direct |-> "none", response |-> <<>>,
     acquired |-> FALSE, visited |-> "none", elapsed |-> 0, signal |-> "none",
     waited |-> "none", result |-> <<>>]

InitSession ==
    /\ browser = 0
    /\ connected = {}
    /\ nextSession = 0
    /\ pageSession = <<>>
    /\ sess = [c \in Callers |-> 0]
    /\ ended = <<0, "none">>
    /\ releases = [c \in Callers |-> 0]
    /\ shutdown = [step |-> "none", session |-> 0, pending |-> {}, invoked |-> {},
                   failed |-> {}]
    /\ preloads = {}

\* no fetch call is running
InitCalls == call = [c \in Callers |-> NoCall]

InitPoolIdle ==
    /\ maxBrowsers = 1
    /\ browserPool = <<>>
    /\ livePages = {}
    /\ nextPage = 0
    /\ cpc = [c \in Callers |-> "idle"]
    /\ held = [c \in Callers |-> 0]
    /\ InitSession

Init == InitDownloads /\ InitPoolIdle /\ InitCalls

Spec == Init /\ [][Next]_vars

SpecShared == Init /\ [][NextShared]_vars

\* the steps of createDownload and processDownload of one download: the jobs
\* that run when the call is made or an awaited operation has settled
Processing(id) ==
    \/ ProcessStart(id)
    \/ CreateReturn(id)
    \/ CatchHandler(id)
    \/ ResolveManga(id)
    \/ ResolveChapters(id)
    \/ \E ok \in BOOLEAN : ChapterUpdated(id, ok)
    \/ \E ok \in BOOLEAN : PageFetched(id, ok)
    \/ \E ok \in BOOLEAN : PageSaved(id, ok)
    \/ \E ok \in BOOLEAN : MkdirDone(id, ok)
    \/ \E outcome \in ExportOutcomes : ExportDone(id, outcome)
    \/ TempRemoved(id)

\* every awaited operation settles sooner or later, and the job that waits
\* for it is run
SpecLive == Init /\ [][Next]_vars /\ \A id \in Ids : WF_vars(Processing(id))

(***************************************************************************)
(* extractChapterNumber on its own, for titles of up to MaxTokens words.   *)
(***************************************************************************)
\* the titles tried: the words of chapter titles in any order, and the
\* examples of the method's comment
Titles ==
    LET Words == {<<"C", "h">>, <<"c", "H", "A", "P", "T", "E", "R">>,
                  <<"C", "h", "a", "p", "t", "e", "r">>, <<".">>, <<" ">>,
                  <<"0">>, <<"1">>, <<"5">>, <<"V">>, <<"?">>}
        Flat[ws \in Seq(Words)] ==
            IF ws = <<>> THEN <<>> ELSE Head(ws) \o Flat[Tail(ws)]
    IN  {Flat[ws] : ws \in UNION {[1..n -> Words] : n \in 0..MaxTokens}}
        \cup {<<"C", "h", ".", "0", "0", "1", " ", "-", " ", "T", "h", "e", " ",
                 "B", "l", "a", "c", "k", " ", "S", "w", "o", "r", "d", "s", "m", "a", "n">>,
               <<"C", "h", "a", "p", "t", "e", "r", " ", "4", "2", ".", "5">>,
               <<"V", "o", "l", ".", "1", " ", "C", "h", "a", "p", "t", "e", "r", " ", "3">>,
               <<"C", "h", "a", "p", "t", "e", "r", " ", " ", "1", "0", ".", "5", "0">>}

\* downloadAndExport has a chapter with this title
ReadTitle(t) ==
    /\ givenTitle = <<>>
    /\ chapterNumber = <<>>
    /\ givenTitle' = t
    /\ chapterNumber' = <<>>
    /\ UNCHANGED <<downloads, nextId, running, pc, request, loc, returned, files,
                   dirs, temp, fetchLog, exportLog, lookups, exported, reply,
                   now, sweep, schedVars, maxBrowsers, browserPool, livePages,
                   nextPage, cpc, held, sessVars, releases, fetchVars, preloads,
                   shutdown>>

\* `const chapterNumber = this.extractChapterNumber(chapter.Title)`
ChapterNumbered ==
    /\ chapterNumber = <<>>
    /\ chapterNumber' = <<extractChapterNumber(givenTitle)>>
    /\ UNCHANGED <<downloads, nextId, running, pc, request, loc, returned, files,
                   dirs, temp, fetchLog, exportLog, lookups, exported, reply,
                   now, sweep, givenTitle, schedVars, maxBrowsers, browserPool,
                   livePages, nextPage, cpc, held, sessVars, releases, fetchVars, preloads,
                   shutdown>>

NextTitles ==
    \/ \E t \in Titles : ReadTitle(t)
    \/ ChapterNumbered

SpecTitles == Init /\ [][NextTitles]_vars

(***************************************************************************)
(* The task scheduler's operations.                                        *)
(***************************************************************************)
\* Submit(work, priority): admission
Submit(p) ==
    LET t == Len(priorityOf) + 1
    IN  /\ t <= MaxTasks
        /\ priorityOf' = Append(priorityOf, p)
        /\ IF Cardinality(active) < ConcurrencyCap
           THEN /\ active' = active \cup {t}
                /\ dispatched' = Append(dispatched, t)
                /\ UNCHANGED backlog
           ELSE /\ backlog' = [backlog EXCEPT ![p] = Append(@, t)]
                /\ UNCHANGED <<active, dispatched>>
        /\ UNCHANGED <<downloads, nextId, running, pc, request, loc, returned, files,
                       dirs, temp, fetchLog, exportLog, lookups, exported, reply,
                       now, sweep, givenTitle, chapterNumber, maxBrowsers, browserPool,
                       livePages, nextPage, cpc, held, sessVars, releases, fetchVars, preloads,
                       shutdown>>

\* a running task completes, with a result or a failure: dispatch
Complete(t, ok) ==
    /\ t \in active
    /\ IF \E p \in Priorities : backlog[p] # <<>>
       THEN LET p == HighestWaiting(backlog)
                u == Head(backlog[p])
            IN  /\ backlog' = [backlog EXCEPT ![p] = Tail(@)]
                /\ active' = (active \ {t}) \cup {u}
                /\ dispatched' = Append(dispatched, u)
       ELSE /\ active' = active \ {t}
            /\ UNCHANGED <<backlog, dispatched>>
    /\ UNCHANGED <<downloads, nextId, running, pc, request, loc, returned, files,
                   dirs, temp, fetchLog, exportLog, lookups, exported, reply,
                   now, sweep, givenTitle, chapterNumber, priorityOf, maxBrowsers,
                   browserPool, livePages, nextPage, cpc, held, sessVars, releases,
                   fetchVars, preloads,
                   shutdown>>

NextScheduler ==
    \/ \E p \in Priorities : Submit(p)
    \/ \E t \in 1..MaxTasks, ok \in BOOLEAN : Complete(t, ok)

\* every running task completes sooner or later
SpecScheduler ==
    /\ Init
    /\ [][NextScheduler]_vars
    /\ \A t \in 1..MaxTasks : WF_vars(\E ok \in BOOLEAN : Complete(t, ok))

(***************************************************************************)
(* cleanupOldDownloads.  `await this.deleteDownload(id)` suspends the loop *)
(* while deleteDownload waits for the file system, which it does for a     *)
(* completed download: getDownloadFilePath has checked the record and      *)
(* awaits fs.access, fs.readdir, and then fs.unlink is awaited.  For any   *)
(* other download deleteDownload returns without waiting and the loop goes *)
(* on in the same job.                                                     *)
(***************************************************************************)
\* config.downloads.retentionDays as a duration: one unit of the clock
retentionMs == 1

\* Date.now() moves on
Tick ==
    /\ running = 0
    /\ now < MaxClock
    /\ now' = now + 1
    /\ UNCHANGED <<downloads, nextId, running, pc, request, loc, returned, files,
                   dirs, temp, fetchLog, exportLog, lookups, exported, reply, sweep,
                   givenTitle, chapterNumber, schedVars, maxBrowsers, browserPool, livePages, nextPage, cpc, held,
                   sessVars, releases, fetchVars, preloads,
                   shutdown>>

\* the entries of Array.from(this.downloads.entries()), a Map in insertion
\* order, for which `now - createdAt > retentionMs`, each with its record
OldEntries(at) ==
    SelectSeq([i \in 1..(nextId - 1) |-> i],
              LAMBDA i : /\ i \in DOMAIN downloads
                         /\ at - downloads[i].createdAt > retentionMs)

\* getDownloadFilePath: mangaDir, as <<baseDir, folderName>>
MangaDir(download) ==
    <<IF download.downloadPath # "" THEN download.downloadPath ELSE downloadDir,
      IF download.mangaTitle # <<>> THEN SanitizeFileName(download.mangaTitle)
      ELSE SanitizeFileName(download.mangaId)>>

\* getDownloadFilePath from `await fs.access(mangaDir)` on, and the fs.unlink
\* of the path it returns: every file system that can be left.  A failure
\* (no directory, no entry, a directory as entry) is caught and logged.
UnlinkFirstEntry(mangaDir) ==
    IF mangaDir \notin dirs \/ Readdir(mangaDir[1], mangaDir[2]) = {}
    THEN {files}
    ELSE {Unlink(files, PathOf(f)) : f \in Readdir(mangaDir[1], mangaDir[2])}

\* the loop over the old entries that are left, as far as it gets in one
\* job: to its end ("returned"), to a deleteDownload that throws because the
\* record is gone ("DownloadNotFound"), or to a deleteDownload that waits
\* for the file system ("")
RECURSIVE SweepLoop(_, _)
SweepLoop(table, todo) ==
    IF todo = <<>>
    THEN [table |-> table, todo |-> todo, ended |-> "returned"]
    ELSE IF Head(todo) \notin DOMAIN table
    THEN [table |-> table, todo |-> todo, ended |-> "DownloadNotFound"]
    ELSE IF table[Head(todo)].status = "completed"
    THEN [table |-> table, todo |-> todo, ended |-> ""]
    ELSE SweepLoop([i \in DOMAIN table \ {Head(todo)} |-> table[i]], Tail(todo))

\* the loop from its next old entry on
SweepFrom(at, table, todo) ==
    LET r == SweepLoop(table, todo)
    IN  /\ downloads' = r.table
        /\ IF r.ended = ""
           THEN /\ sweep' = [step |-> "run", now |-> at, todo |-> r.todo,
                             mangaDir |-> MangaDir(r.table[Head(r.todo)])]
                /\ UNCHANGED reply
           ELSE /\ sweep' = NoSweep
                /\ reply' = [op |-> "cleanup",
                             id |-> IF r.todo = <<>> THEN 0 ELSE Head(r.todo),
                             kind |-> r.ended, path |-> NoPath]

\* cleanupOldDownloads, to its first wait for the file system or to its end
CleanupOldDownloads ==
    /\ running = 0
    /\ sweep.step = "none"
    /\ SweepFrom(now, downloads, OldEntries(now))
    /\ UNCHANGED <<nextId, running, pc, request, loc, returned, files, dirs, temp,
                   fetchLog, exportLog, lookups, exported, now,
                   givenTitle, chapterNumber, schedVars, maxBrowsers, browserPool, livePages, nextPage, cpc, held,
                   sessVars, releases, fetchVars, preloads,
                   shutdown>>

\* deleteDownload after `await fs.unlink(filePath)` (or the failure that is
\* caught): `this.downloads.delete(downloadId)`, and on with the loop
CleanupResumed ==
    /\ running = 0
    /\ sweep.step = "run"
    /\ files' \in UnlinkFirstEntry(sweep.mangaDir)
    /\ SweepFrom(sweep.now,
                 [i \in DOMAIN downloads \ {Head(sweep.todo)} |-> downloads[i]],
                 Tail(sweep.todo))
    /\ UNCHANGED <<nextId, running, pc, request, loc, returned, dirs, temp,
                   fetchLog, exportLog, lookups, exported, now,
                   givenTitle, chapterNumber, schedVars, maxBrowsers, browserPool, livePages, nextPage, cpc, held,
                   sessVars, releases, fetchVars, preloads,
                   shutdown>>

\* downloads into one manga folder, created at different times, and sweeps
NextCleanup ==
    \/ \E r \in SharedRequests : CreateShared(r)
    \/ \E id \in Ids : Step(id)
    \/ Tick
    \/ CleanupOldDownloads
    \/ CleanupResumed

SpecCleanup == Init /\ [][NextCleanup]_vars

(***************************************************************************)
(* FetchProviderPuppeteer: the page pool and the browser session.  A       *)
(* caller is one fetch call (FetchWithBrowser, FetchWindowPreloadScript),  *)
(* which takes a page with getPage and gives it back with releasePage in   *)
(* its finally block.                                                      *)
(***************************************************************************)
InitPool ==
    /\ maxBrowsers \in 0..MaxCap
    /\ browserPool = <<>>
    /\ livePages = {}
    /\ nextPage = 0
    /\ cpc = [c \in Callers |-> "idle"]
    /\ held = [c \in Callers |-> 0]
    /\ InitSession

\* getPage: `this.browserPool.length < this.maxBrowsers`
UnderLimit == Len(browserPool) < maxBrowsers

\* getBrowser: `!this.browser || !this.browser.connected`
BrowserMissing == browser = 0 \/ browser \notin connected

\* `this.browserPool.pop()`: the page it returns and the pool it leaves
AvailablePage == browserPool[Len(browserPool)]

\* a pop that leaves the page in the pool
PoolAfterPeek == browserPool

PoolAfterPop == SubSeq(browserPool, 1, Len(browserPool) - 1)

\* getPage, to its first await: pop an idle page, else go on to create one
\* (getBrowser returns the session at once or starts a launch), else sleep
GetPageBody(c) ==
    IF browserPool # <<>>
    THEN /\ held' = [held EXCEPT ![c] = AvailablePage]
         /\ browserPool' = PoolAfterPop
         /\ cpc' = [cpc EXCEPT ![c] = "holding"]
         /\ ended' = <<c, "page">>
         /\ UNCHANGED sess
    ELSE IF UnderLimit
    THEN /\ IF BrowserMissing
            THEN /\ cpc' = [cpc EXCEPT ![c] = "launching"]
                 /\ UNCHANGED sess
            ELSE /\ cpc' = [cpc EXCEPT ![c] = "creating"]
                 /\ sess' = [sess EXCEPT ![c] = browser]
         /\ UNCHANGED <<held, browserPool, ended>>
    ELSE /\ cpc' = [cpc EXCEPT ![c] = "waiting"]
         /\ UNCHANGED <<held, browserPool, sess, ended>>

GetPage(c) ==
    /\ cpc[c] = "idle"
    /\ call[c].step = "none"
    /\ releases' = [releases EXCEPT ![c] = 0]
    /\ GetPageBody(c)
    /\ UNCHANGED <<maxBrowsers, livePages, nextPage, browser, connected,
                   nextSession, pageSession, dlVars, fetchVars>>

\* after the sleep of one second: `return this.getPage()`
RetryGetPage(c) ==
    /\ cpc[c] = "waiting"
    /\ GetPageBody(c)
    /\ UNCHANGED <<releases, maxBrowsers, livePages, nextPage, browser, connected,
                   nextSession, pageSession, dlVars, fetchVars>>

\* getBrowser after `await puppeteer.launch(...)`: the session is stored in
\* this.browser and returned
LaunchedUpTo(c, limit) ==
    /\ cpc[c] = "launching"
    /\ nextSession < limit
    /\ nextSession' = nextSession + 1
    /\ browser' = nextSession + 1
    /\ connected' = connected \cup {nextSession + 1}
    /\ sess' = [sess EXCEPT ![c] = nextSession + 1]
    /\ cpc' = [cpc EXCEPT ![c] = "creating"]
    /\ UNCHANGED <<releases, maxBrowsers, browserPool, livePages, nextPage, held,
                   pageSession, ended, dlVars, fetchVars>>

Launched(c) == LaunchedUpTo(c, MaxSessions)

\* a launch failure after which the new session is stored all the same
LaunchFailedRecorded(c) ==
    /\ cpc[c] = "launching"
    /\ browser' = nextSession + 1
    /\ connected' = connected \cup {nextSession + 1}
    /\ ended' = <<c, "launchFailed">>
    /\ cpc' = [cpc EXCEPT ![c] = "idle"]
    /\ UNCHANGED <<releases, maxBrowsers, browserPool, livePages, nextPage, held,
                   nextSession, pageSession, sess, dlVars, fetchVars>>

\* getBrowser when `await puppeteer.launch(...)` throws: this.browser is not
\* assigned, the error 'Failed to launch browser...' leaves getPage and the
\* fetch call that awaited it
LaunchFailed(c) ==
    /\ cpc[c] = "launching"
    /\ ended' = <<c, "launchFailed">>
    /\ cpc' = [cpc EXCEPT ![c] = "idle"]
    /\ UNCHANGED <<releases, maxBrowsers, browserPool, livePages, nextPage, held,
                   browser, connected, nextSession, pageSession, sess, dlVars, fetchVars>>

\* after `await browser.newPage()` on a connected session
PageCreated(c) ==
    /\ cpc[c] = "creating"
    /\ sess[c] \in connected
    /\ nextPage < MaxPages
    /\ nextPage' = nextPage + 1
    /\ livePages' = livePages \cup {nextPage + 1}
    /\ pageSession' = Append(pageSession, sess[c])
    /\ held' = [held EXCEPT ![c] = nextPage + 1]
    /\ cpc' = [cpc EXCEPT ![c] = "viewport"]
    /\ UNCHANGED <<releases, maxBrowsers, browserPool, browser, connected, nextSession,
                   sess, ended, dlVars, fetchVars>>

\* `await browser.newPage()` throws: the session went away after getBrowser
\* returned it
NewPageFailed(c) ==
    /\ cpc[c] = "creating"
    /\ sess[c] \notin connected
    /\ sess' = [sess EXCEPT ![c] = 0]
    /\ ended' = <<c, "newPageFailed">>
    /\ cpc' = [cpc EXCEPT ![c] = "idle"]
    /\ UNCHANGED <<releases, maxBrowsers, browserPool, livePages, nextPage, held,
                   browser, connected, nextSession, pageSession, dlVars, fetchVars>>

\* after `await page.setViewport(...)`: `return page`
ViewportSet(c) ==
    /\ cpc[c] = "viewport"
    /\ pageSession[held[c]] \in connected
    /\ ended' = <<c, "page">>
    /\ cpc' = [cpc EXCEPT ![c] = "holding"]
    /\ UNCHANGED <<releases, maxBrowsers, browserPool, livePages, nextPage, held,
                   browser, connected, nextSession, pageSession, sess, dlVars, fetchVars>>

\* `await page.setViewport(...)` throws: getPage fails, the page it created
\* is neither returned nor closed
ViewportFailed(c) ==
    /\ cpc[c] = "viewport"
    /\ pageSession[held[c]] \notin connected
    /\ held' = [held EXCEPT ![c] = 0]
    /\ sess' = [sess EXCEPT ![c] = 0]
    /\ ended' = <<c, "viewportFailed">>
    /\ cpc' = [cpc EXCEPT ![c] = "idle"]
    /\ UNCHANGED <<releases, maxBrowsers, browserPool, livePages, nextPage, browser,
                   connected, nextSession, pageSession, dlVars, fetchVars>>

\* the finally block: releasePage, to `await page.evaluate(...)`
ReleasePage(c) ==
    /\ cpc[c] = "holding"
    /\ call[c].step \in {"none", "finally"}
    /\ cpc' = [cpc EXCEPT ![c] = "releasing"]
    /\ releases' = [releases EXCEPT ![c] = @ + 1]
    /\ UNCHANGED <<maxBrowsers, browserPool, livePages, nextPage, held,
                   sessVars, dlVars, fetchVars>>

\* a test that still lets a page in when the pool is full
PoolHasRoomAtLimit == Len(browserPool) <= maxBrowsers

\* releasePage: `this.browserPool.length < this.maxBrowsers`
PoolHasRoom == Len(browserPool) < maxBrowsers

\* after `await page.evaluate(...)`: pool the page or close it; close it when
\* the evaluation failed, as it does on a page of a disconnected session.
\* Errors of page.close() are swallowed, releasePage never throws.
PageReset(c, ok) ==
    /\ cpc[c] = "releasing"
    /\ ok => pageSession[held[c]] \in connected
    /\ IF ok /\ PoolHasRoom
       THEN /\ browserPool' = Append(browserPool, held[c])
            /\ ended' = <<c, "pooled">>
            /\ UNCHANGED <<livePages, preloads>>
       ELSE /\ livePages' = livePages \ {held[c]}
            /\ preloads' = preloads \ {held[c]}
            /\ ended' = <<c, IF ok THEN "closed" ELSE "resetFailed">>
            /\ UNCHANGED browserPool
    /\ held' = [held EXCEPT ![c] = 0]
    /\ sess' = [sess EXCEPT ![c] = 0]
    /\ cpc' = [cpc EXCEPT ![c] = "idle"]
    /\ releases' = [releases EXCEPT ![c] = IF call[c].step = "none" THEN 0 ELSE @]
    /\ UNCHANGED <<maxBrowsers, nextPage, browser, connected, nextSession,
                   pageSession, serviceVars, otherVars, fetchVars>>

\* the browser process of a session dies: browser.connected turns false
Disconnect(s) ==
    /\ s \in connected
    /\ connected' = connected \ {s}
    /\ UNCHANGED <<releases, maxBrowsers, browserPool, livePages, nextPage, cpc, held,
                   browser, nextSession, pageSession, sess, ended, dlVars, fetchVars>>

NextPool ==
    \/ \E c \in Callers :
        \/ GetPage(c)
        \/ RetryGetPage(c)
        \/ Launched(c)
        \/ LaunchFailed(c)
        \/ PageCreated(c)
        \/ NewPageFailed(c)
        \/ ViewportSet(c)
        \/ ViewportFailed(c)
        \/ ReleasePage(c)
        \/ \E ok \in BOOLEAN : PageReset(c, ok)
    \/ \E s \in 1..MaxSessions : Disconnect(s)

InitOfPool == InitDownloads /\ InitPool /\ InitCalls

SpecPool == InitOfPool /\ [][NextPool]_vars

(***************************************************************************)
(* cleanup: close every pooled page, then the session.                     *)
(***************************************************************************)
\* cleanup, to `await Promise.all(...)`: page.close() is called on every page
\* of the pool, each with a catch callback
Cleanup ==
    /\ shutdown.step \notin {"pages", "browser"}
    /\ shutdown' = [step |-> "pages", session |-> 0, pending |-> Range(browserPool),
                    invoked |-> Range(browserPool), failed |-> {}]
    /\ UNCHANGED <<serviceVars, now, sweep, givenTitle, chapterNumber, schedVars,
                   maxBrowsers, browserPool, livePages, nextPage, cpc, held,
                   sessVars, releases, fetchVars, preloads>>

\* a close whose failure rejects Promise.all and with it cleanup
PageClosedUncaught(p, ok) ==
    /\ shutdown.step = "pages"
    /\ p \in shutdown.pending
    /\ ok => pageSession[p] \in connected
    /\ livePages' = livePages \ {p}
    /\ shutdown' = IF ok THEN [shutdown EXCEPT !.pending = @ \ {p}]
                   ELSE [shutdown EXCEPT !.pending = @ \ {p}, !.failed = @ \cup {p},
                                         !.step = "failed"]
    /\ UNCHANGED <<serviceVars, now, sweep, givenTitle, chapterNumber, schedVars,
                   maxBrowsers, browserPool, nextPage, cpc, held, sessVars,
                   releases, fetchVars, preloads>>

\* one page.close() settles; `.catch(() => {})` turns a failure into success
PageClosed(p, ok) ==
    /\ shutdown.step = "pages"
    /\ p \in shutdown.pending
    /\ ok => pageSession[p] \in connected
    /\ livePages' = livePages \ {p}
    /\ shutdown' = [shutdown EXCEPT !.pending = @ \ {p},
                                    !.failed = IF ok THEN @ ELSE @ \cup {p}]
    /\ UNCHANGED <<serviceVars, now, sweep, givenTitle, chapterNumber, schedVars,
                   maxBrowsers, browserPool, nextPage, cpc, held, sessVars,
                   releases, fetchVars, preloads>>

\* after `await Promise.all(...)`: the pool is emptied and, if there is a
\* session, browser.close() is called
PoolCleared ==
    /\ shutdown.step = "pages"
    /\ shutdown.pending = {}
    /\ browserPool' = <<>>
    /\ shutdown' = [shutdown EXCEPT !.step = IF browser # 0 THEN "browser" ELSE "done",
                                    !.session = browser]
    /\ UNCHANGED <<serviceVars, now, sweep, givenTitle, chapterNumber, schedVars,
                   maxBrowsers, livePages, nextPage, cpc, held, sessVars,
                   releases, fetchVars, preloads>>

\* after `await this.browser.close()`: `this.browser = null`; the pages of
\* a closed session are gone.  If close throws, cleanup throws.
BrowserClosed(ok) ==
    /\ shutdown.step = "browser"
    /\ IF ok
       THEN /\ connected' = connected \ {shutdown.session}
            /\ browser' = 0
            /\ livePages' = {p \in livePages : pageSession[p] # shutdown.session}
            /\ shutdown' = [shutdown EXCEPT !.step = "done"]
       ELSE /\ shutdown' = [shutdown EXCEPT !.step = "failed"]
            /\ UNCHANGED <<connected, browser, livePages>>
    /\ UNCHANGED <<serviceVars, now, sweep, givenTitle, chapterNumber, schedVars,
                   maxBrowsers, browserPool, nextPage, cpc, held, nextSession,
                   pageSession, sess, ended, releases, fetchVars, preloads>>

\* a pool that may keep every page, used by callers while no cleanup runs
InitShutdown ==
    /\ InitDownloads
    /\ InitCalls
    /\ maxBrowsers = MaxPages
    /\ browserPool = <<>>
    /\ livePages = {}
    /\ nextPage = 0
    /\ cpc = [c \in Callers |-> "idle"]
    /\ held = [c \in Callers |-> 0]
    /\ InitSession

NextShutdown ==
    \/ shutdown.step \notin {"pages", "browser"} /\ NextPool
    \/ Cleanup
    \/ \E p \in 1..MaxPages, ok \in BOOLEAN : PageClosed(p, ok)
    \/ PoolCleared
    \/ \E ok \in BOOLEAN : BrowserClosed(ok)

SpecShutdown == InitShutdown /\ [][NextShutdown]_vars

(***************************************************************************)
(* cleanup while getPage and releasePage calls are running: nothing in the *)
(* provider keeps them apart.  Up to MaxLaunches launches succeed.         *)
(***************************************************************************)
NextRace ==
    \/ \E c \in Callers :
        \/ GetPage(c)
        \/ RetryGetPage(c)
        \/ LaunchedUpTo(c, MaxLaunches)
        \/ LaunchFailed(c)
        \/ PageCreated(c)
        \/ NewPageFailed(c)
        \/ ViewportSet(c)
        \/ ViewportFailed(c)
        \/ ReleasePage(c)
        \/ \E ok \in BOOLEAN : PageReset(c, ok)
    \/ \E s \in 1..MaxLaunches : Disconnect(s)
    \/ Cleanup
    \/ \E p \in 1..MaxPages, ok \in BOOLEAN : PageClosed(p, ok)
    \/ PoolCleared
    \/ \E ok \in BOOLEAN : BrowserClosed(ok)

SpecRace == InitOfPool /\ [][NextRace]_vars

(***************************************************************************)
(* sanitizeHeaders.  A header value is a sequence of characters; "CR",     *)
(* "LF", "TAB", "NUL", "ESC" and "DEL" stand for the characters 0x0D,      *)
(* 0x0A, 0x09, 0x00, 0x1B and 0x7F.  Headers are the list of [key, value]  *)
(* entries the function iterates over.                                     *)
(***************************************************************************)
\* /[\r\n]+/
Newline == {"CR", "LF"}

\* a class that leaves out 0x7F
ControlBelowDel == {"NUL", "TAB", "LF", "CR", "ESC"}

\* /[\x00-\x1F\x7F]/
Control == {"NUL", "TAB", "LF", "CR", "ESC", "DEL"}

\* the rest of v after the run of newlines it starts with
RECURSIVE DropRun(_)
DropRun(v) == IF v # <<>> /\ v[1] \in Newline THEN DropRun(Tail(v)) ELSE v

\* value.replace(/[\r\n]+/g, ', ')
RECURSIVE ReplaceNewlines(_)
ReplaceNewlines(v) ==
    IF v = <<>> THEN <<>>
    ELSE IF v[1] \in Newline THEN <<",", " ">> \o ReplaceNewlines(DropRun(v))
    ELSE <<v[1]>> \o ReplaceNewlines(Tail(v))

\* /[\x00-\x1F\x7F]/.test(sanitizedValue)
HasControl(v) == \E i \in 1..Len(v) : v[i] \in Control

sanitizeHeaders(entries) ==
    LET replaced == [i \in 1..Len(entries) |->
                        <<entries[i][1], ReplaceNewlines(entries[i][2])>>]
    IN  SelectSeq(replaced, LAMBDA e : ~HasControl(e[2]))

\* the characters header values are built from
HeaderChars == {"a", ",", "CR", "LF", "TAB", "DEL"}

\* the values of up to MaxLen characters
HeaderValues == UNION {[1..n -> HeaderChars] : n \in 0..MaxLen}

\* the response headers tried for sanitizeHeaders alone: one header of any
\* value followed by a second one
HeaderInputs ==
    {<<<<"server-timing", v>>, <<"x", w>>>> :
        v \in HeaderValues, w \in {<<"a">>, <<"a", "CR", "LF", "a">>}}

\* the response headers a fetch may receive
FetchHeaders ==
    {<<<<"server-timing", <<"a", "LF", "a">>>>, <<"x", <<"a">>>>>>,
     <<<<"server-timing", <<"a", "TAB">>>>, <<"x", <<"a">>>>>>}

(***************************************************************************)
(* Fetch, FetchWithBrowser, FetchWindowPreloadScript.  One action per      *)
(* stretch of code between two awaits; call[c].step names the await the    *)
(* call of caller c is suspended at.                                       *)
(***************************************************************************)
\* the errors the direct fetch (fetch, ValidateResponse, arrayBuffer) may
\* throw, by name, and their message texts
DirectErrors == {"Forbidden", "CloudFlare", "cloudflare", "Network", "NoMessage"}
HasMessage(e) == e # "NoMessage"
Message(e) ==
    CASE e = "Forbidden"  -> <<"4", "0", "3", " ", "F", "o", "r", "b", "i", "d", "d", "e", "n">>
      [] e = "CloudFlare" -> <<"C", "l", "o", "u", "d", "F", "l", "a", "r", "e", "!">>
      [] e = "cloudflare" -> <<"c", "l", "o", "u", "d", "f", "l", "a", "r", "e">>
      [] e = "Network"    -> <<"E", "C", "O", "N", "N">>
      [] OTHER            -> <<>>

\* String.prototype.includes
Includes(text, needle) ==
    \E i \in 1..(Len(text) - Len(needle) + 1) :
        SubSeq(text, i, i + Len(needle) - 1) = needle

\* a test that sends every failure of the direct fetch to the browser
BotBlockedAlways(e) == TRUE

\* `error.message?.includes('CloudFlare') || error.message?.includes('Forbidden')`
BotBlocked(e) ==
    /\ HasMessage(e)
    /\ \/ Includes(Message(e), <<"C", "l", "o", "u", "d", "F", "l", "a", "r", "e">>)
       \/ Includes(Message(e), <<"F", "o", "r", "b", "i", "d", "d", "e", "n">>)

Methods == {"GET", "HEAD", "POST"}

\* a navigation that always goes to the URL of the request
PageToVisitUrl(method, referer) == "url"

\* what page.goto is called with: for a method other than GET and HEAD
\* `referer || new URL(request.url).origin`, else request.url
PageToVisit(method, referer) ==
    IF method \notin {"GET", "HEAD"}
    THEN (IF referer THEN "referer" ELSE "origin")
    ELSE "url"

\* a loop test that never sees the deadline
WithinDeadlineAlways(elapsed) == TRUE

\* waitForCloudflare: `Date.now() - startTime < maxWaitTime`, in units of the
\* 500 ms poll interval
WithinDeadline(elapsed) == elapsed < MaxWaitTime

\* the clock after d more units; readings past the deadline are all alike
Elapse(elapsed, d) ==
    IF elapsed + d > MaxWaitTime THEN MaxWaitTime ELSE elapsed + d

\* the first await after waitForCloudflare has returned
AfterWait(c) ==
    IF call[c].op = "Fetch"
    THEN (IF call[c].method \in {"GET", "HEAD"} THEN "content" ELSE "text")
    ELSE (IF call[c].delay > 0 THEN "delay" ELSE "script")

\* what a step that touches neither pool nor session leaves alone
BodyFrame ==
    UNCHANGED <<maxBrowsers, browserPool, livePages, nextPage, cpc, held,
                sessVars, releases, dlVars>>

\* the part of the pool and session state GetPageBody does not set
GetPageFrame ==
    UNCHANGED <<maxBrowsers, livePages, nextPage, browser, connected,
                nextSession, pageSession, dlVars>>

\* a body whose end leaves the call at once, past the finally block
FinishWithoutFinally(c, res) ==
    call' = [call EXCEPT ![c].result = res, ![c].step = "return",
                         ![c].signal = "none", ![c].waited = "none"]

\* the body ends (return or throw): control passes to the finally block; how
\* the challenge wait went is no longer kept
Finish(c, res) ==
    call' = [call EXCEPT ![c].result = res, ![c].step = "finally",
                         ![c].signal = "none", ![c].waited = "none"]

\* Fetch, to `await fetch(request, fetchOptions)`
Fetch(c, method) ==
    /\ call[c].step = "none"
    /\ cpc[c] = "idle"
    /\ call' = [call EXCEPT ![c] = [NoCall EXCEPT !.op = "Fetch",
                                                  !.method = method,
                                                  !.step = "direct"]]
    /\ releases' = [releases EXCEPT ![c] = 0]
    /\ UNCHANGED <<maxBrowsers, browserPool, livePages, nextPage, cpc, held,
                   sessVars, dlVars>>

\* the catch block of Fetch: FetchWithBrowser (which runs to its
\* `await this.getPage()`) for a bot-blocking error, `throw error` otherwise
Caught(c, e) ==
    IF BotBlocked(e)
    THEN /\ call' = [call EXCEPT ![c].direct = e, ![c].step = "getPage"]
         /\ GetPageBody(c)
    ELSE /\ call' = [call EXCEPT ![c].direct = e, ![c].step = "return",
                                 ![c].result = <<"error", e>>]
         /\ UNCHANGED <<browserPool, cpc, held, sess, ended>>

\* after `await fetch(...)`
DirectDone(c, r) ==
    /\ call[c].step = "direct"
    /\ IF r = "ok"
       THEN /\ \E h \in FetchHeaders :
                  call' = [call EXCEPT ![c].response = h, ![c].step = "validate"]
            /\ UNCHANGED <<browserPool, cpc, held, sess, ended>>
       ELSE Caught(c, r)
    /\ UNCHANGED releases
    /\ GetPageFrame

\* after `await this.ValidateResponse(response)`; sanitizeHeaders runs before
\* the next await
ValidateDone(c, r) ==
    /\ call[c].step = "validate"
    /\ IF r = "ok"
       THEN /\ call' = [call EXCEPT ![c].step = "body"]
            /\ UNCHANGED <<browserPool, cpc, held, sess, ended>>
       ELSE Caught(c, r)
    /\ UNCHANGED releases
    /\ GetPageFrame

\* after `await response.arrayBuffer()`: the Response with sanitized headers
BodyRead(c, r) ==
    /\ call[c].step = "body"
    /\ IF r = "ok"
       THEN /\ call' = [call EXCEPT
                           ![c].direct = "ok", ![c].step = "return",
                           ![c].result = <<"response", sanitizeHeaders(call[c].response)>>]
            /\ UNCHANGED <<browserPool, cpc, held, sess, ended>>
       ELSE Caught(c, r)
    /\ UNCHANGED releases
    /\ GetPageFrame

\* FetchWindowPreloadScript (FetchWindowScript passes a preload), to
\* `await this.getPage()`
FetchWindowPreloadScript(c, preload, delay) ==
    /\ call[c].step = "none"
    /\ cpc[c] = "idle"
    /\ call' = [call EXCEPT ![c] = [NoCall EXCEPT !.op = "Script",
                                                  !.preload = preload,
                                                  !.delay = delay,
                                                  !.step = "getPage"]]
    /\ releases' = [releases EXCEPT ![c] = 0]
    /\ GetPageBody(c)
    /\ GetPageFrame

\* `await this.getPage()` throws: it is outside the try block, the error
\* leaves the call, no page was handed over
GetPageFailed(c) ==
    /\ call[c].step = "getPage"
    /\ cpc[c] = "idle"
    /\ call' = [call EXCEPT ![c].step = "return", ![c].result = <<"error", "getPage">>]
    /\ BodyFrame

\* `await this.getPage()` returns the page: the try block runs to its first
\* await; FetchWithBrowser reads the Referer header of the request
PageAcquired(c) ==
    /\ call[c].step = "getPage"
    /\ cpc[c] = "holding"
    /\ \E referer \in BOOLEAN :
          call' = [call EXCEPT
                      ![c].acquired = TRUE,
                      ![c].step = IF call[c].op = "Script" /\ call[c].preload
                                  THEN "preload" ELSE "goto",
                      ![c].visited = IF call[c].op = "Script"
                                     THEN (IF call[c].preload THEN "none" ELSE "url")
                                     ELSE PageToVisit(call[c].method, referer)]
    /\ BodyFrame

\* after `await page.evaluateOnNewDocument(preload)`: the script is
\* registered on the page, for every document the page loads from now on
PreloadDone(c, ok) ==
    /\ call[c].step = "preload"
    /\ IF ok
       THEN /\ call' = [call EXCEPT ![c].step = "goto", ![c].visited = "url"]
            /\ preloads' = preloads \cup {held[c]}
       ELSE /\ Finish(c, <<"error", "preload">>)
            /\ UNCHANGED preloads
    /\ UNCHANGED <<maxBrowsers, browserPool, livePages, nextPage, cpc, held,
                   sessVars, releases, serviceVars, otherVars>>

GotoResults == {"response", "null", "throw"}

\* after `await page.goto(...)`: a null response is an error; FetchWithBrowser
\* goes on to waitForCloudflare (which runs to its first evaluate),
\* FetchWindowPreloadScript to its challenge test
GotoDone(c, r) ==
    /\ call[c].step = "goto"
    /\ IF r = "response"
       THEN IF call[c].op = "Script"
            THEN call' = [call EXCEPT ![c].step = "check"]
            ELSE IF WithinDeadline(0)
            THEN call' = [call EXCEPT ![c].elapsed = 0, ![c].step = "evaluate"]
            ELSE call' = [call EXCEPT ![c].elapsed = 0, ![c].waited = "timeout",
                                      ![c].step = AfterWait(c)]
       ELSE Finish(c, <<"error", IF r = "null" THEN "Failed to load" ELSE "goto">>)
    /\ BodyFrame

CheckResults == {"clear", "challenge", "throw"}

\* FetchWindowPreloadScript after `await page.evaluate(...)` of hasChallenge
ChallengeChecked(c, r) ==
    /\ call[c].step = "check"
    /\ CASE r = "clear"     -> call' = [call EXCEPT ![c].step = AfterWait(c)]
         [] r = "challenge" ->
              IF WithinDeadline(0)
              THEN call' = [call EXCEPT ![c].elapsed = 0, ![c].step = "evaluate"]
              ELSE call' = [call EXCEPT ![c].elapsed = 0, ![c].waited = "timeout",
                                        ![c].step = AfterWait(c)]
         [] OTHER           -> Finish(c, <<"error", "evaluate">>)
    /\ BodyFrame

Signals == {"clear", "challenge", "destroyed", "error"}

\* waitForCloudflare after `await page.evaluate(...)` of pageInfo, which took
\* d units of time
Evaluated(c, r, d) ==
    /\ call[c].step = "evaluate"
    /\ CASE r = "clear" ->
              call' = [call EXCEPT ![c].elapsed = 0, ![c].signal = r,
                                   ![c].waited = "cleared", ![c].step = AfterWait(c)]
         [] r = "challenge" ->
              call' = [call EXCEPT ![c].elapsed = Elapse(@, d), ![c].signal = r,
                                   ![c].step = "sleep"]
         [] r = "destroyed" ->
              call' = [call EXCEPT ![c].elapsed = Elapse(@, d), ![c].signal = r,
                                   ![c].step = "navsleep"]
         [] OTHER ->
              call' = [call EXCEPT ![c].elapsed = 0, ![c].signal = r,
                                   ![c].waited = "threw", ![c].step = "finally",
                                   ![c].result = <<"error", "evaluate">>]
    /\ BodyFrame

\* after the 500 ms sleep at the end of an iteration: the loop test
Slept(c) ==
    /\ call[c].step = "sleep"
    /\ IF WithinDeadline(Elapse(call[c].elapsed, 1))
       THEN call' = [call EXCEPT ![c].elapsed = Elapse(@, 1), ![c].step = "evaluate"]
       ELSE call' = [call EXCEPT ![c].elapsed = 0, ![c].waited = "timeout",
                                 ![c].step = AfterWait(c)]
    /\ BodyFrame

\* after the 1000 ms sleep that follows 'Execution context was destroyed'
NavSlept(c) ==
    /\ call[c].step = "navsleep"
    /\ call' = [call EXCEPT ![c].elapsed = Elapse(@, 2), ![c].step = "recheck"]
    /\ BodyFrame

\* a re-check whose own failure is raised to the caller
RecheckedRethrows(c, r, d) ==
    /\ call[c].step = "recheck"
    /\ CASE r = "clear" ->
              call' = [call EXCEPT ![c].elapsed = 0, ![c].signal = r,
                                   ![c].waited = "cleared", ![c].step = AfterWait(c)]
         [] r = "throw" ->
              call' = [call EXCEPT ![c].elapsed = 0, ![c].signal = r,
                                   ![c].waited = "threw", ![c].step = "finally",
                                   ![c].result = <<"error", "evaluate">>]
         [] OTHER ->
              call' = [call EXCEPT ![c].elapsed = Elapse(@, d), ![c].signal = r,
                                   ![c].step = "sleep"]
    /\ BodyFrame

\* after the second `await page.evaluate(...)`: cleared, or on with the loop
Rechecked(c, r, d) ==
    /\ call[c].step = "recheck"
    /\ IF r = "clear"
       THEN call' = [call EXCEPT ![c].elapsed = 0, ![c].signal = r,
                                 ![c].waited = "cleared", ![c].step = AfterWait(c)]
       ELSE call' = [call EXCEPT ![c].elapsed = Elapse(@, d), ![c].signal = r,
                                 ![c].step = "sleep"]
    /\ BodyFrame

\* FetchWithBrowser (GET) after `await page.content()`
ContentDone(c, ok) ==
    /\ call[c].step = "content"
    /\ IF ok
       THEN \E h \in FetchHeaders : Finish(c, <<"response", sanitizeHeaders(h)>>)
       ELSE Finish(c, <<"error", "content">>)
    /\ BodyFrame

\* FetchWithBrowser (other methods) after `await request.text()`
TextDone(c, ok) ==
    /\ call[c].step = "text"
    /\ IF ok THEN call' = [call EXCEPT ![c].step = "inpage", ![c].signal = "none",
                                        ![c].waited = "none"]
       ELSE Finish(c, <<"error", "text">>)
    /\ BodyFrame

\* FetchWithBrowser (other methods) after `await page.evaluate(...)` of the
\* in-page fetch
InPageDone(c, ok) ==
    /\ call[c].step = "inpage"
    /\ IF ok
       THEN \E h \in FetchHeaders : Finish(c, <<"response", sanitizeHeaders(h)>>)
       ELSE Finish(c, <<"error", "evaluate">>)
    /\ BodyFrame

\* FetchWindowPreloadScript after the delay
Delayed(c) ==
    /\ call[c].step = "delay"
    /\ call' = [call EXCEPT ![c].step = "script", ![c].signal = "none",
                             ![c].waited = "none"]
    /\ BodyFrame

\* FetchWindowPreloadScript after `await page.evaluate(script)`
ScriptDone(c, ok) ==
    /\ call[c].step = "script"
    /\ Finish(c, IF ok THEN <<"value">> ELSE <<"error", "script">>)
    /\ BodyFrame

\* the promise of the call settles: after `await this.releasePage(page)` in
\* the finally block, or where the call ended without a page; the locals are
\* gone
Returned(c) ==
    /\ \/ call[c].step = "return"
       \/ call[c].step = "finally" /\ cpc[c] = "idle"
    /\ call' = [call EXCEPT ![c] = NoCall]
    /\ releases' = [releases EXCEPT ![c] = 0]
    /\ UNCHANGED <<maxBrowsers, browserPool, livePages, nextPage, cpc, held,
                   sessVars, dlVars>>

FetchStep(c) ==
    \/ \E m \in Methods : Fetch(c, m)
    \/ \E r \in {"ok"} \cup DirectErrors : DirectDone(c, r)
    \/ \E r \in {"ok"} \cup DirectErrors : ValidateDone(c, r)
    \/ \E r \in {"ok"} \cup DirectErrors : BodyRead(c, r)
    \/ \E preload \in BOOLEAN, delay \in 0..1 : FetchWindowPreloadScript(c, preload, delay)
    \/ GetPageFailed(c)
    \/ PageAcquired(c)
    \/ \E ok \in BOOLEAN : PreloadDone(c, ok)
    \/ \E r \in GotoResults : GotoDone(c, r)
    \/ \E r \in CheckResults : ChallengeChecked(c, r)
    \/ \E r \in Signals, d \in 0..1 : Evaluated(c, r, d)
    \/ Slept(c)
    \/ NavSlept(c)
    \/ \E r \in CheckResults, d \in 0..1 : Rechecked(c, r, d)
    \/ \E ok \in BOOLEAN : ContentDone(c, ok)
    \/ \E ok \in BOOLEAN : TextDone(c, ok)
    \/ \E ok \in BOOLEAN : InPageDone(c, ok)
    \/ Delayed(c)
    \/ \E ok \in BOOLEAN : ScriptDone(c, ok)
    \/ Returned(c)

\* the getPage / releasePage steps of a fetch call
PoolStep(c) ==
    \/ RetryGetPage(c)
    \/ Launched(c)
    \/ LaunchFailed(c)
    \/ PageCreated(c)
    \/ NewPageFailed(c)
    \/ ViewportSet(c)
    \/ ViewportFailed(c)
    \/ ReleasePage(c)
    \/ \E ok \in BOOLEAN : PageReset(c, ok)

\* the other callers take and give back pages while the fetch calls run
NextFetch ==
    \/ \E c \in Fetchers : FetchStep(c) \/ PoolStep(c)
    \/ \E c \in Callers \ Fetchers : GetPage(c) \/ PoolStep(c)
    \/ \E s \in 1..MaxSessions : Disconnect(s)

SpecFetch == InitOfPool /\ [][NextFetch]_vars

\* every step of a call that has begun is taken sooner or later
SpecFetchFair ==
    /\ InitOfPool
    /\ [][NextFetch]_vars
    /\ \A c \in Fetchers : WF_vars((FetchStep(c) \/ PoolStep(c)) /\ call[c].step # "none")

\* a Fetch call whose direct fetch has just returned a response with the
\* headers h
InitHeaders ==
    /\ InitDownloads
    /\ InitPoolIdle
    /\ \E h \in HeaderInputs :
          call = [c \in Callers |->
                     IF c = 1 THEN [NoCall EXCEPT !.op = "Fetch", !.method = "GET",
                                                  !.step = "validate", !.response = h]
                     ELSE NoCall]

NextHeaders ==
    \/ \E r \in {"ok"} \cup DirectErrors : ValidateDone(1, r)
    \/ \E r \in {"ok"} \cup DirectErrors : BodyRead(1, r)
    \/ Returned(1)

SpecHeaders == InitHeaders /\ [][NextHeaders]_vars


(***************************************************************************)
(* C1  Under any interleaving of getPage and releasePage calls, the number *)
(* of live pages (checked out plus idle) never exceeds maxBrowsers.        *)
(***************************************************************************)
CheckedOut == {held[c] : c \in {k \in Callers : held[k] # 0}}
C1_LivePagesWithinCapacity ==
    Cardinality(CheckedOut \cup Range(browserPool)) <= maxBrowsers

(***************************************************************************)
(* C2  The record createDownload hands back has state queued and progress  *)
(* 0 at the moment the call returns.                                       *)
(***************************************************************************)
C2_ReturnedRecordIsQueued ==
    \A id \in Ids :
        returned[id] # <<>> =>
            returned[id][1].status = "queued" /\ returned[id][1].progress = 0

(***************************************************************************)
(* C3  A record is created queued; its state changes only along            *)
(* queued -> downloading -> processing -> completed, or from one of the    *)
(* first three to failed; a completed or failed record keeps its state.    *)
(***************************************************************************)
C3_Transitions ==
    {<<"queued", "downloading">>, <<"downloading", "processing">>,
     <<"processing", "completed">>, <<"queued", "failed">>,
     <<"downloading", "failed">>, <<"processing", "failed">>}

C3_StatusStateMachine ==
    [][\A id \in Ids :
          /\ (id \notin DOMAIN downloads /\ id \in DOMAIN downloads')
                 => downloads'[id].status = "queued"
          /\ (id \in DOMAIN downloads /\ id \in DOMAIN downloads')
                 => \/ downloads'[id].status = downloads[id].status
                    \/ <<downloads[id].status, downloads'[id].status>> \in C3_Transitions
      ]_vars

C3_Witness ==
    \E id \in DOMAIN downloads :
        /\ downloads[id].status = "completed"
        /\ pc[id] = "done"
        /\ returned[id] # <<>>

(***************************************************************************)
(* C4  The progress of a record never decreases from one update to the     *)
(* next, lies in 0..100, and is 100 exactly when the state is completed.   *)
(***************************************************************************)
C4_ProgressMonotone ==
    /\ [](\A id \in DOMAIN downloads :
              /\ downloads[id].progress \in 0..100
              /\ downloads[id].progress = 100 <=> downloads[id].status = "completed")
    /\ [][\A id \in Ids :
              (id \in DOMAIN downloads /\ id \in DOMAIN downloads')
                  => downloads'[id].progress >= downloads[id].progress]_vars

C4_Witness ==
    \E id \in DOMAIN downloads :
        /\ downloads[id].status = "processing"
        /\ downloads[id].progress = 90
        /\ pc[id] = "export"

(***************************************************************************)
(* C5  getDownloadFilePath answers with a path only for a download whose   *)
(* state is completed; for a record in any other state it answers          *)
(* "Download is not completed yet" and names no file, also when a failed   *)
(* download left a partly written file.                                    *)
(***************************************************************************)
C5_FileOnlyWhenCompleted ==
    /\ []((reply.op = "file" /\ reply.kind = "path") => exported[reply.id] # <<>>)
    /\ [][\A id \in Ids :
              (GetDownloadFilePath(id) /\ id \in DOMAIN downloads
                  /\ downloads[id].status # "completed")
                  => /\ reply'.kind = "Download is not completed yet"
                     /\ reply'.path = NoPath]_vars

C5_Witness ==
    /\ reply.op = "file"
    /\ reply.kind = "Download is not completed yet"
    /\ reply.id \in DOMAIN downloads
    /\ downloads[reply.id].status = "failed"
    /\ \E f \in files : f.by = reply.id /\ ~f.whole

(***************************************************************************)
(* C6  For a completed download, getDownloadFilePath returns the path of   *)
(* the artifact its own export wrote, also when other downloads of the     *)
(* same manga into the same root have completed.                           *)
(***************************************************************************)
C6_ReturnsOwnArtifact ==
    (reply.op = "file" /\ reply.kind = "path") => exported[reply.id] = <<reply.path>>

(***************************************************************************)
(* C7  After deleteDownload of a completed download (archive file or image *)
(* directory) its artifact no longer exists and its record is gone.        *)
(***************************************************************************)
C7_DeleteRemovesArtifact ==
    (reply.op = "delete" /\ reply.kind = "completed")
        => /\ getDownload(reply.id) = <<>>
           /\ ~\E f \in files : f.by = reply.id

(***************************************************************************)
(* C8  When no requested chapter identifier is in the catalog of the       *)
(* resolved manga, no page is fetched, no export is invoked, and the       *)
(* download ends failed with a message listing every catalog identifier.   *)
(***************************************************************************)
C8_NoMatchingChapters ==
    \A id \in Ids :
        (/\ pc[id] # "idle"
         /\ request[id].sourceId \in Sources
         /\ request[id].mangaId \in MangaIds
         /\ Range(request[id].chapterIds) \cap Range(Catalog) = {})
            => /\ fetchLog[id] = <<>>
               /\ exportLog[id] = <<>>
               /\ (pc[id] = "done" /\ id \in DOMAIN downloads)
                      => /\ downloads[id].status = "failed"
                         /\ downloads[id].error[1] = "No valid chapters found to download"
                         /\ Range(Catalog) \subseteq Range(downloads[id].error[2])

C8_Witness ==
    \E id \in DOMAIN downloads :
        /\ pc[id] = "done"
        /\ request[id].chapterIds = <<"x", "y">>
        /\ downloads[id].status = "failed"

(***************************************************************************)
(* C9  When the source identifier matches no plugin, or the manga          *)
(* identifier no entry of the plugin's catalog, no chapter is resolved, no *)
(* page fetched, nothing exported, and the download ends failed with the   *)
(* SourceNotFound or MangaNotFound message.                                *)
(***************************************************************************)
C9_UnknownSourceOrManga ==
    \A id \in Ids :
        /\ (pc[id] # "idle" /\ request[id].sourceId \notin Sources)
              => /\ lookups[id] = {}
                 /\ fetchLog[id] = <<>>
                 /\ exportLog[id] = <<>>
                 /\ (pc[id] = "done" /\ id \in DOMAIN downloads)
                        => /\ downloads[id].status = "failed"
                           /\ downloads[id].error = <<"SourceNotFound", request[id].sourceId>>
        /\ (/\ pc[id] # "idle"
            /\ request[id].sourceId \in Sources
            /\ request[id].mangaId \notin MangaIds)
              => /\ "chapters" \notin lookups[id]
                 /\ fetchLog[id] = <<>>
                 /\ exportLog[id] = <<>>
                 /\ (pc[id] = "done" /\ id \in DOMAIN downloads)
                        => /\ downloads[id].status = "failed"
                           /\ downloads[id].error = <<"MangaNotFound", request[id].mangaId>>

C9_Witness ==
    \E id \in DOMAIN downloads :
        /\ pc[id] = "done"
        /\ request[id].mangaId \notin MangaIds
        /\ downloads[id].status = "failed"
        /\ lookups[id] = {"mangas"}

(***************************************************************************)
(* C10  When the fetch of a page fails, it is the last fetch of the        *)
(* download (no later page, no later chapter, no second try of a page),    *)
(* the exporter is not invoked for the chapter, and the download ends      *)
(* failed with the error of that page.                                     *)
(***************************************************************************)
C10_PageFailureAborts ==
    \A id \in Ids :
        \A i \in 1..Len(fetchLog[id]) :
            fetchLog[id][i][3] = "failed"
                => /\ i = Len(fetchLog[id])
                   /\ \A j \in 1..Len(fetchLog[id]) :
                          (j # i) => <<fetchLog[id][j][1], fetchLog[id][j][2]>>
                                         # <<fetchLog[id][i][1], fetchLog[id][i][2]>>
                   /\ fetchLog[id][i][1] \notin Range(exportLog[id])
                   /\ (pc[id] = "done" /\ id \in DOMAIN downloads)
                          => /\ downloads[id].status = "failed"
                             /\ downloads[id].error
                                    = <<"Failed to download page", fetchLog[id][i][2] + 1>>

C10_Witness ==
    \E id \in DOMAIN downloads :
        /\ pc[id] = "done"
        /\ Len(fetchLog[id]) = 2
        /\ fetchLog[id][2][3] = "failed"
        /\ downloads[id].status = "failed"

(***************************************************************************)
(* C12  The idle set never holds more than maxBrowsers pages: releasePage  *)
(* pools a page only when its reset succeeded and the idle set is below    *)
(* maxBrowsers, and closes it otherwise; a page whose reset failed is      *)
(* closed and not pooled.                                                  *)
(***************************************************************************)
C12_Release ==
    \A c \in Callers :
        (cpc[c] = "releasing" /\ cpc'[c] = "idle") =>
            /\ ended'[1] = c
            /\ ended'[2] \in {"pooled", "closed", "resetFailed"}
            /\ ended'[2] = "pooled" =>
                 /\ Len(browserPool) < maxBrowsers
                 /\ browserPool' = Append(browserPool, held[c])
                 /\ held[c] \in livePages'
            /\ ended'[2] = "closed" =>
                 /\ Len(browserPool) >= maxBrowsers
                 /\ browserPool' = browserPool
                 /\ held[c] \notin livePages'
            /\ ended'[2] = "resetFailed" =>
                 /\ browserPool' = browserPool
                 /\ held[c] \notin Range(browserPool')
                 /\ held[c] \notin livePages'
C12_IdleSetWithinCapacity ==
    /\ [](Len(browserPool) <= maxBrowsers)
    /\ [][C12_Release]_vars

\* a release found the idle set at capacity and closed its page
C12_Witness ==
    /\ maxBrowsers >= 1
    /\ Len(browserPool) = maxBrowsers
    /\ ended[2] = "closed"

(***************************************************************************)
(* C13  A getPage call that finds no idle page while the pool's pages      *)
(* (checked out plus idle) number maxBrowsers creates no page and launches *)
(* no session: it waits.                                                   *)
(***************************************************************************)
TotalPages == Cardinality(CheckedOut \cup Range(browserPool))
C13_AtCapacityWaits ==
    [][\A c \in Callers :
          (/\ cpc[c] \in {"idle", "waiting"}
           /\ browserPool = <<>>
           /\ TotalPages = maxBrowsers)
          => cpc'[c] \in {cpc[c], "waiting"}]_vars

(***************************************************************************)
(* C14  No page is checked out to two callers at the same time, and no     *)
(* page is in the idle set while a caller has it checked out.              *)
(***************************************************************************)
C14_NoSharedPage ==
    /\ \A c1, c2 \in Callers :
           (c1 # c2 /\ held[c1] # 0) => held[c1] # held[c2]
    /\ \A i \in 1..Len(browserPool) : browserPool[i] \notin CheckedOut

\* a caller took a page out of the idle set while another caller holds one
C14_Witness ==
    \E c1, c2 \in Callers :
        /\ c1 # c2
        /\ cpc[c1] = "holding" /\ cpc[c2] = "holding"
        /\ ended = <<c1, "page">>
        /\ held[c1] < held[c2]

(***************************************************************************)
(* C15  The page a getPage call returns belongs to a session that is       *)
(* connected when the call returns.                                        *)
(***************************************************************************)
C15_PageOfConnectedSession ==
    [][\A c \in Callers :
          (cpc[c] # "holding" /\ cpc'[c] = "holding")
          => pageSession'[held'[c]] \in connected']_vars

(***************************************************************************)
(* C16  When the launch of the browser session fails, the getPage call     *)
(* ends with the launch error, no page is created, the idle set and the    *)
(* recorded session are as before the call, and a getPage call goes on to  *)
(* create a page without a launch only when a connected session is stored. *)
(***************************************************************************)
C16_Step ==
    \A c \in Callers :
        /\ (cpc[c] = "launching" /\ cpc'[c] = "idle") =>
               /\ ended' = <<c, "launchFailed">>
               /\ held'[c] = 0
               /\ nextPage' = nextPage
               /\ livePages' = livePages
               /\ browserPool' = browserPool
               /\ browser' = browser
               /\ connected' = connected
        /\ (cpc[c] \in {"idle", "waiting"} /\ cpc'[c] = "creating") =>
               (browser # 0 /\ browser \in connected)
        /\ (cpc[c] \in {"idle", "waiting"} /\ cpc'[c] \notin {cpc[c], "waiting"}
            /\ browserPool = <<>> /\ (browser = 0 \/ browser \notin connected)) =>
               cpc'[c] = "launching"
C16_LaunchFailure == [][C16_Step]_vars

\* a launch failed, no session is stored, and a getPage call is launching again
C16_Witness ==
    /\ ended[2] = "launchFailed"
    /\ browser = 0
    /\ cpc[ended[1]] = "launching"

(***************************************************************************)
(* C11  A FetchWithBrowser or FetchWindowPreloadScript call that was       *)
(* handed a page calls releasePage exactly once before it ends, whether    *)
(* its body returned or threw; releasePage leaves the call's result as the *)
(* body set it; and when releasePage has finished the page is no longer    *)
(* checked out: it is in the idle set or closed.                           *)
(***************************************************************************)
C11_Over(c) ==
    \/ call[c].step = "return"
    \/ call[c].step = "finally" /\ cpc[c] = "idle"
C11_State ==
    \A c \in Fetchers :
        /\ releases[c] <= 1
        /\ ~call[c].acquired => releases[c] = 0
        /\ (C11_Over(c) /\ call[c].acquired) =>
               /\ releases[c] = 1
               /\ cpc[c] = "idle"
               /\ held[c] = 0
               /\ call[c].result # <<>>
C11_Step ==
    \A c \in Fetchers :
        /\ (cpc[c] = "releasing" /\ cpc'[c] # "releasing") =>
               /\ held[c] \notin {held'[k] : k \in Callers}
               /\ \/ held[c] \in Range(browserPool')
                  \/ held[c] \notin livePages'
        /\ (call[c].step = "finally" /\ call'[c].step = "finally") =>
               call'[c].result = call[c].result
C11_PageAlwaysReleased == []C11_State /\ [][C11_Step]_vars

\* a call whose body threw after it was handed a page has ended
C11_Witness ==
    \E c \in Fetchers :
        /\ C11_Over(c)
        /\ call[c].acquired
        /\ call[c].result = <<"error", "Failed to load">>
        /\ releases[c] = 1

(***************************************************************************)
(* C17  waitForCloudflare ends whenever its evaluations end: it returns    *)
(* cleared at the evaluation that shows no challenge, it returns normally  *)
(* (timeout, no error) when the deadline has passed with the challenge     *)
(* still shown, after which the content extraction is the next step, and   *)
(* it throws only when an evaluation threw.                                *)
(***************************************************************************)
C17_InWait(c) == call[c].step \in {"evaluate", "sleep", "navsleep", "recheck"}
C17_Extraction == {"content", "text", "delay", "script"}
C17_Step ==
    \A c \in Fetchers :
        (C17_InWait(c) /\ call'[c] # call[c]) =>
            /\ (call[c].step \in {"evaluate", "recheck"} /\ call'[c].signal = "clear") =>
                   /\ call'[c].waited = "cleared"
                   /\ call'[c].step \in C17_Extraction
            /\ (call[c].step = "sleep" /\ call[c].elapsed + 1 >= MaxWaitTime) =>
                   /\ call'[c].waited = "timeout"
                   /\ call'[c].step \in C17_Extraction
                   /\ call'[c].result = <<>>
            /\ call'[c].step = "finally" =>
                   (call[c].step = "evaluate" /\ call'[c].signal = "error")
            /\ call'[c].step \in {"evaluate", "sleep", "navsleep", "recheck"} =>
                   /\ call'[c].elapsed >= call[c].elapsed
                   /\ (call[c].step \in {"sleep", "navsleep"}
                       /\ call[c].elapsed < MaxWaitTime) =>
                          call'[c].elapsed > call[c].elapsed
C17_ChallengeWaitTerminates ==
    /\ [][C17_Step]_vars
    /\ \A c \in Fetchers : C17_InWait(c) ~> ~C17_InWait(c)

\* the deadline passed with the challenge still shown and the page content
\* is being read
C17_Witness ==
    \E c \in Fetchers :
        /\ call[c].waited = "timeout"
        /\ call[c].signal = "challenge"
        /\ call[c].step = "content"

(***************************************************************************)
(* C18  Fetch makes the direct fetch first and enters getPage only from    *)
(* the failure of the direct fetch with an error whose message contains    *)
(* 'Forbidden' or 'CloudFlare'; when the direct fetch succeeds the call    *)
(* returns its response and takes no page; on any other error the call     *)
(* ends with that error and takes no page.                                 *)
(***************************************************************************)
C18_Blocking == {"Forbidden", "CloudFlare"}
C18_State ==
    \A c \in Fetchers :
        call[c].op = "Fetch" =>
            /\ call[c].direct \notin C18_Blocking =>
                   /\ cpc[c] = "idle"
                   /\ held[c] = 0
                   /\ ~call[c].acquired
                   /\ releases[c] = 0
            /\ (call[c].step = "return" /\ call[c].direct = "ok") =>
                   call[c].result[1] = "response"
            /\ call[c].direct \notin (C18_Blocking \cup {"none", "ok"}) =>
                   /\ call[c].step = "return"
                   /\ call[c].result = <<"error", call[c].direct>>
C18_Step ==
    \A c \in Fetchers :
        (call'[c].op = "Fetch" /\ cpc[c] = "idle" /\ cpc'[c] # "idle") =>
            /\ call[c].step \in {"direct", "validate", "body"}
            /\ call'[c].direct \in C18_Blocking
C18_DirectFirst == []C18_State /\ [][C18_Step]_vars

\* the direct fetch was refused as forbidden and the call has a page
C18_Witness ==
    \E c \in Fetchers :
        /\ call[c].op = "Fetch"
        /\ call[c].direct = "Forbidden"
        /\ call[c].acquired

(***************************************************************************)
(* C19  The headers of the Response that Fetch returns hold no control     *)
(* character (0x00-0x1F, 0x7F): they are the response's headers, in order, *)
(* with every run of CR/LF replaced by ', ', without the headers whose     *)
(* value holds another control character; a header whose value has no     *)
(* control character is passed on as it is.                                *)
(***************************************************************************)
C19_ControlChars == {"NUL", "TAB", "LF", "CR", "ESC", "DEL"}
C19_Clean(v) == \A j \in 1..Len(v) : v[j] \notin C19_ControlChars
C19_Droppable(v) == \E j \in 1..Len(v) : v[j] \in C19_ControlChars \ {"CR", "LF"}
\* the folded value, built from the positions of v that are no newline or
\* that start a run of newlines
RECURSIVE C19_Fold(_, _)
C19_Fold(v, i) ==
    IF i > Len(v) THEN <<>>
    ELSE (IF v[i] \notin {"CR", "LF"} THEN <<v[i]>>
          ELSE IF i = 1 \/ v[i - 1] \notin {"CR", "LF"} THEN <<",", " ">>
          ELSE <<>>) \o C19_Fold(v, i + 1)
RECURSIVE C19_Expected(_, _)
C19_Expected(entries, i) ==
    IF i > Len(entries) THEN <<>>
    ELSE (IF C19_Droppable(entries[i][2]) THEN <<>>
          ELSE <<<<entries[i][1], C19_Fold(entries[i][2], 1)>>>>)
         \o C19_Expected(entries, i + 1)
C19_Returned(c) ==
    call[c].op = "Fetch" /\ call[c].step = "return" /\ call[c].direct = "ok"
C20_AdvertisedFormatsExport ==
    \A id \in DOMAIN downloads :
        (/\ request[id].format \in {"cbz", "images", "pdf", "epub"}
         /\ fetchLog[id] # <<>>
         /\ \A i \in 1..Len(fetchLog[id]) : fetchLog[id][i][3] = "ok")
        => ~(/\ downloads[id].status = "failed"
             /\ downloads[id].error = UnsupportedFormat(request[id].format))

(***************************************************************************)
(* C21: cleanupOldDownloads removes exactly the downloads older than the   *)
(* retention window: every step of a sweep leaves the record and the       *)
(* artifact of each download within the window as they were, and the       *)
(* download whose deleteDownload call it waited for is gone afterwards.    *)
(***************************************************************************)
C21_SweepRemovesExactlyOld ==
    [][sweep' # sweep
       => LET at == IF sweep.step = "run" THEN sweep.now ELSE now
              todo == IF sweep.step = "run" THEN sweep.todo ELSE OldEntries(now)
          IN  /\ \A id \in DOMAIN downloads :
                    ~(at - downloads[id].createdAt > retentionMs)
                    => /\ id \in DOMAIN downloads'
                       /\ downloads'[id] = downloads[id]
                       /\ {f \in files' : f.by = id} = {f \in files : f.by = id}
              /\ sweep.step = "run" => Head(todo) \notin DOMAIN downloads'
      ]_vars

(***************************************************************************)
(* C22: once a download is completed or failed, none of the temporary      *)
(* resources it staged remains.                                            *)
(***************************************************************************)
C22_NoTempAfterTerminal ==
    \A id \in DOMAIN downloads :
        downloads[id].status \in {"completed", "failed"}
        => \A k \in temp : k[1] # id

(***************************************************************************)
(* C27: a browser-driven fetch of a request whose method is neither GET    *)
(* nor HEAD navigates to the referring page (the Referer header, else the  *)
(* origin of the request URL) and never to the request URL; it then runs   *)
(* the challenge wait, and only after the wait has returned does it read   *)
(* the body and issue the request from inside the page.                    *)
(***************************************************************************)
C27_InBrowser(c) ==
    /\ call[c].op = "Fetch"
    /\ call[c].method \notin {"GET", "HEAD"}
    /\ call[c].acquired
C27_Wait == {"evaluate", "sleep", "navsleep", "recheck"}
C27_State ==
    \A c \in Fetchers :
        C27_InBrowser(c)
        => /\ call[c].visited \in {"referer", "origin"}
           /\ call[c].step \notin {"content", "preload", "check", "delay", "script"}
C27_Step ==
    \A c \in Fetchers :
        C27_InBrowser(c) /\ call'[c].step # call[c].step
        => /\ call'[c].step # "none" => call'[c].visited = call[c].visited
           /\ call[c].step = "goto"
              => call'[c].step \in {"evaluate", "finally"}
           /\ call'[c].step \in C27_Wait
              => call[c].step \in C27_Wait \cup {"goto"}
           /\ call'[c].step = "text"
              => /\ call[c].step \in C27_Wait
                 /\ call'[c].waited \in {"cleared", "timeout"}
           /\ call'[c].step = "inpage" => call[c].step = "text"
C27_RefererWaitRequest ==
    /\ []C27_State
    /\ [][C27_Step]_vars

C27_Witness ==
    \E c \in Fetchers :
        /\ C27_InBrowser(c)
        /\ call[c].step = "inpage"
        /\ call[c].visited = "origin"

(***************************************************************************)
(* C28: with no pool activity while cleanup runs, cleanup empties the idle *)
(* set only after close has been invoked on every page in it and every     *)
(* close has settled; when cleanup completes the idle set is empty and no  *)
(* session is recorded; a page whose close fails does not end cleanup,     *)
(* which fails only on the close of the session.                           *)
(***************************************************************************)
C28_Step ==
    /\ shutdown.step = "pages" /\ shutdown'.step # "pages"
       => /\ Range(browserPool) \subseteq shutdown.invoked
          /\ shutdown.pending = {}
          /\ browserPool' = <<>>
    /\ shutdown'.step = "failed" /\ shutdown.step # "failed"
       => /\ shutdown.step = "browser"
          /\ browserPool' = <<>>
          /\ browser' = shutdown.session
    /\ shutdown'.step = "done" /\ shutdown.step # "done"
       => /\ browserPool' = <<>>
          /\ browser' = 0
          /\ shutdown'.session \notin connected'
          /\ shutdown'.invoked \cap livePages' = {}
C28_CleanupClosesAll == [][C28_Step]_vars

\* cleanup completed although the close of one of two idle pages failed
C28_Witness ==
    /\ shutdown.step = "done"
    /\ Cardinality(shutdown.invoked) = 2
    /\ Cardinality(shutdown.failed) = 1
    /\ shutdown.session # 0

(***************************************************************************)
(* C29: in the challenge wait, an evaluation that fails because the        *)
(* execution context was destroyed is followed by a pause and exactly one  *)
(* re-check; the wait returns cleared if the re-check finds the challenge  *)
(* text gone, and goes on polling if it finds the text or fails itself;    *)
(* any other evaluation error is raised to the caller.                     *)
(***************************************************************************)
C29_Step ==
    \A c \in Fetchers :
        call'[c].step # call[c].step
        => /\ call[c].step = "evaluate" /\ call'[c].signal = "destroyed"
              => call'[c].step = "navsleep"
           /\ call[c].step = "evaluate" /\ call'[c].signal = "error"
              => /\ call'[c].step = "finally"
                 /\ call'[c].result = <<"error", "evaluate">>
           /\ call[c].step = "navsleep" => call'[c].step = "recheck"
           /\ call'[c].step = "recheck" => call[c].step = "navsleep"
           /\ call'[c].step = "navsleep" => call[c].step = "evaluate"
           /\ call[c].step = "recheck"
              => IF call'[c].signal = "clear"
                 THEN /\ call'[c].step \in {"content", "text", "delay", "script"}
                      /\ call'[c].waited = "cleared"
                 ELSE /\ call'[c].signal \in {"challenge", "throw"}
                      /\ call'[c].step = "sleep"
                      /\ call'[c].result = <<>>
C29_RecheckOnce == [][C29_Step]_vars

\* the re-check failed and the wait goes on polling
C29_Witness ==
    \E c \in Fetchers :
        /\ call[c].step = "sleep"
        /\ call[c].signal = "throw"

(***************************************************************************)
(* C30: while the Exporter runs for a chapter, every page of the chapter   *)
(* has been fetched and staged, and the resource map it was given has      *)
(* exactly the keys 0..pageCount-1, key i holding the staged bytes of      *)
(* page i.                                                                 *)
(***************************************************************************)
C30_ExportGetsEveryPageByIndex ==
    \A id \in DOMAIN pc :
        pc[id] = "export"
        => LET l == loc[id]
               n == PageCount(CurrentChapter(id))
           IN  /\ exportLog[id] # <<>>
               /\ exportLog[id][Len(exportLog[id])] = l.chapterIndex
               /\ DOMAIN l.resourceMap = 0..(n - 1)
               /\ \A i \in 0..(n - 1) :
                     /\ l.resourceMap[i] = <<id, l.chapterIndex, i>>
                     /\ l.resourceMap[i] \in temp
                     /\ \E k \in 1..Len(fetchLog[id]) :
                            fetchLog[id][k] = <<l.chapterIndex, i, "ok">>

C30_Witness ==
    \E id \in DOMAIN pc :
        /\ pc[id] = "export"
        /\ PageCount(CurrentChapter(id)) = 2
        /\ Cardinality(DOMAIN loc[id].resourceMap) = 2

C24_Numerals == <<"0", "1", "2", "3", "4", "5", "6", "7", "8", "9">>
C24_IsDigit(t, i) == i \in 1..Len(t) /\ \E v \in 1..10 : C24_Numerals[v] = t[i]
C24_Fold(ch) ==
    LET upper == <<"C", "H", "A", "P", "T", "E", "R">>
        lower == <<"c", "h", "a", "p", "t", "e", "r">>
    IN  IF \E k \in 1..7 : upper[k] = ch
        THEN lower[CHOOSE k \in 1..7 : upper[k] = ch] ELSE ch
C24_WordAt(t, i, w) ==
    /\ i + Len(w) - 1 <= Len(t)
    /\ \A k \in 1..Len(w) : C24_Fold(t[i + k - 1]) = w[k]
\* the places where a number follows 'Ch' or 'Ch.', as <<place, start of number>>
C24_ChSites(t) ==
    {<<i, s>> \in (1..Len(t)) \X (1..Len(t)) :
        /\ C24_WordAt(t, i, <<"c", "h">>)
        /\ C24_IsDigit(t, s)
        /\ \/ s = i + 2
           \/ s = i + 3 /\ t[i + 2] = "."}
\* the places where a number follows 'Chapter' and any blanks
C24_ChapterSites(t) ==
    {<<i, s>> \in (1..Len(t)) \X (1..Len(t)) :
        /\ C24_WordAt(t, i, <<"c", "h", "a", "p", "t", "e", "r">>)
        /\ C24_IsDigit(t, s)
        /\ s >= i + 7
        /\ \A k \in (i + 7)..(s - 1) : t[k] = " "}
C24_NumberSites(t) == {<<i, i>> : i \in {k \in 1..Len(t) : C24_IsDigit(t, k)}}
\* the last digit of the run of digits that starts at s
C24_RunEnd(t, s) ==
    CHOOSE e \in s..Len(t) :
        /\ \A k \in s..e : C24_IsDigit(t, k)
        /\ ~C24_IsDigit(t, e + 1)
RECURSIVE C24_Value(_, _, _)
C24_Value(t, s, e) ==
    IF e < s THEN 0
    ELSE 10 * C24_Value(t, s, e - 1) + (CHOOSE v \in 0..9 : C24_Numerals[v + 1] = t[e])
RECURSIVE C24_Decimal(_)
C24_Decimal(n) ==
    IF n < 10 THEN <<C24_Numerals[n + 1]>>
    ELSE C24_Decimal(n \div 10) \o <<C24_Numerals[(n % 10) + 1]>>
\* the number that starts at s, written as a number is
C24_Number(t, s) ==
    LET e    == C24_RunEnd(t, s)
        frac == IF e + 1 <= Len(t) /\ t[e + 1] = "." /\ C24_IsDigit(t, e + 2)
                THEN LET f == C24_RunEnd(t, e + 2)
                         nonzero == {k \in (e + 2)..f : t[k] # "0"}
                     IN  IF nonzero = {} THEN <<>>
                         ELSE SubSeq(t, e + 2,
                                     CHOOSE k \in nonzero : \A j \in nonzero : j <= k)
                ELSE <<>>
        int  == C24_Decimal(C24_Value(t, s, e))
    IN  IF frac = <<>> THEN int ELSE int \o <<".">> \o frac
\* the number at the leftmost of the sites
C24_Leftmost(t, sites) ==
    LET site == CHOOSE x \in sites : \A y \in sites : x[1] <= y[1]
    IN  C24_Number(t, site[2])
C24_Label(t) ==
    IF C24_ChSites(t) # {} THEN C24_Leftmost(t, C24_ChSites(t))
    ELSE IF C24_ChapterSites(t) # {} THEN C24_Leftmost(t, C24_ChapterSites(t))
    ELSE IF C24_NumberSites(t) # {} THEN C24_Leftmost(t, C24_NumberSites(t))
    ELSE SanitizeFileName(t)
C24_ChapterLabel ==
    chapterNumber # <<>>
    => /\ chapterNumber[1] = C24_Label(givenTitle)
       /\ givenTitle = <<"C", "h", ".", "0", "0", "1", " ", "-", " ", "T", "h", "e", " ",
                         "B", "l", "a", "c", "k", " ", "S", "w", "o", "r", "d", "s", "m", "a", "n">>
          => chapterNumber[1] = <<"1">>
       /\ givenTitle = <<"C", "h", "a", "p", "t", "e", "r", " ", "4", "2", ".", "5">>
          => chapterNumber[1] = <<"4", "2", ".", "5">>
       /\ givenTitle = <<"V", "o", "l", ".", "1", " ", "C", "h", "a", "p", "t", "e", "r", " ", "3">>
          => chapterNumber[1] = <<"3">>

C24_Witness ==
    /\ givenTitle = <<"V", "o", "l", ".", "1", " ", "C", "h", "a", "p", "t", "e", "r", " ", "3">>
    /\ chapterNumber = <<<<"3">>>>

(***************************************************************************)
(* C25: a task leaves the backlog only when a running task completes, and  *)
(* it is then the oldest task of the highest bucket that is not empty; a   *)
(* completion with tasks waiting dispatches one; no task is dispatched     *)
(* twice; and every waiting task is dispatched in the end (the             *)
(* submissions being finitely many, the buckets above it drain).           *)
(***************************************************************************)
C25_Waiting == UNION {{backlog[p][k] : k \in 1..Len(backlog[p])} : p \in Priorities}
C25_Started == {dispatched[k] : k \in 1..Len(dispatched)}
C25_Step ==
    /\ \A t \in C25_Waiting :
          t \in C25_Started'
          => /\ \E done \in active : done \notin active'
             /\ dispatched' = Append(dispatched, t)
             /\ \A u \in C25_Waiting \ {t} :
                   /\ u \in C25_Waiting'
                   /\ \/ priorityOf[u] < priorityOf[t]
                      \/ priorityOf[u] = priorityOf[t] /\ t < u
    /\ (C25_Waiting # {} /\ \E done \in active : done \notin active')
       => Len(dispatched') = Len(dispatched) + 1
C25_State ==
    /\ \A j, k \in 1..Len(dispatched) : dispatched[j] = dispatched[k] => j = k
    /\ C25_Waiting \cap C25_Started = {}
    /\ active \subseteq C25_Started
    /\ Cardinality(active) <= ConcurrencyCap
    /\ \A p \in Priorities : \A k \in 1..Len(backlog[p]) : priorityOf[backlog[p][k]] = p
C25_DispatchPolicy ==
    /\ []C25_State
    /\ [][C25_Step]_vars
    /\ \A t \in 1..MaxTasks : (t \in C25_Waiting) ~> (t \in C25_Started)

\* a Low task was dispatched after a High task that was submitted after it
C25_Witness ==
    \E j, k \in 1..Len(dispatched) :
        /\ j < k
        /\ dispatched[k] < dispatched[j]
        /\ priorityOf[dispatched[k]] = 0
        /\ priorityOf[dispatched[j]] = 2

(***************************************************************************)
(* C26: a status record changes only in a step of the processing of its    *)
(* own download, which is a step of no other download; a download whose    *)
(* processing threw has the catch callback as the next job and ends        *)
(* failed, with the error it threw.                                        *)
(***************************************************************************)
C26_Moved(i) == pc'[i] # pc[i] \/ loc'[i] # loc[i]
C26_Step ==
    DOMAIN downloads' = DOMAIN downloads
    => \A i \in DOMAIN downloads :
          downloads'[i] # downloads[i]
          => /\ C26_Moved(i)
             /\ \A j \in Ids \ {i} : ~C26_Moved(j)
             /\ \A j \in DOMAIN downloads \ {i} : downloads'[j] = downloads[j]
C26_State ==
    \A i \in Ids :
        /\ pc[i] = "thrown" => running = i
        /\ pc[i] = "done" /\ loc[i].error # <<>> /\ i \in DOMAIN downloads
           => /\ downloads[i].status = "failed"
              /\ downloads[i].error = loc[i].error
C26_OwnRecordOnly == []C26_State /\ [][C26_Step]_vars

C26_Witness ==
    \E i, j \in DOMAIN downloads :
        /\ i # j
        /\ pc[i] = "done" /\ downloads[i].status = "failed"
        /\ downloads[j].status = "completed"

(***************************************************************************)
(* C34: an identity that was handed out and has no record in the download  *)
(* table has none in the next state either: once deleteDownload has        *)
(* removed a record it never comes back, and the steps that the processing *)
(* of that download still takes (its progress, completed and failed        *)
(* updates) leave the table as it is.                                      *)
(***************************************************************************)
C34_Step ==
    \A id \in Known :
        id \notin DOMAIN downloads
        => /\ id \notin DOMAIN downloads'
           /\ pc'[id] # pc[id] => downloads' = downloads
C34_DeletedNeverReturns == [][C34_Step]_vars

\* a download that was deleted in flight has gone on to its completion
C34_Witness ==
    \E id \in Known :
        /\ id \notin DOMAIN downloads
        /\ reply.op = "delete" /\ reply.id = id /\ reply.kind = "deleted"
        /\ pc[id] = "done"
        /\ exported[id] # <<>>

(***************************************************************************)
(* C35: when the record of a download is gone from the table, no step      *)
(* writes an export artifact of that download: the artifacts of a download *)
(* without a record are those that were there before the step.             *)
(***************************************************************************)
C35_NoArtifactAfterDelete ==
    [][\A id \in Known :
          id \notin DOMAIN downloads
          => {f \in files' : f.by = id} \subseteq files]_vars

(***************************************************************************)
(* C36: a step that removes the record of a download from the table (a     *)
(* deleteDownload of it) removes no artifact but those that this download  *)
(* exported.                                                               *)
(***************************************************************************)
C36_DeleteSparesOthers ==
    [][\A id \in DOMAIN downloads :
          id \notin DOMAIN downloads'
          => \A f \in files \ files' : f.by = id]_vars

(***************************************************************************)
(* C33: the progress reported when a page has been staged.  A step that    *)
(* stages a page adds its key <<id, chapterIndex, pageIndex>> to the       *)
(* temporary storage; pageIndex counts from 0, as chapterIndex does.       *)
(***************************************************************************)
C33_Staged == temp' \ temp
C33_PageCount(k) == PageCount(loc[k[1]].chapters[k[2] + 1])
C33_Total(k) == Len(loc[k[1]].chapters)

C33_Step ==
    \A k \in C33_Staged :
        k[1] \in DOMAIN downloads'
        => LET p == downloads'[k[1]].progress
               d == C33_PageCount(k) * C33_Total(k)
               n == (k[2] * C33_PageCount(k) + k[3] + 1) * 90
           IN  p * d <= n /\ n < (p + 1) * d
C33_State ==
    \A id \in DOMAIN downloads :
        /\ downloads[id].status # "completed" => downloads[id].progress <= 90
        /\ downloads[id].status = "completed" => downloads[id].progress = 100
C31_EveryDownloadEnds ==
    \A id \in Ids :
        (id \in DOMAIN downloads)
        ~> (id \notin DOMAIN downloads
            \/ downloads[id].status \in {"completed", "failed"})

\* a download whose only chapter has no pages has failed
C31_Witness ==
    \E id \in DOMAIN downloads :
        /\ request[id].chapterIds = <<"e">>
        /\ downloads[id].status = "failed"
        /\ downloads[id].error = NoChaptersDownloaded
        /\ fetchLog[id] = <<>>

(***************************************************************************)
(* C32: when the fs.mkdir of a requested custom directory fails, the       *)
(* createDownload call is rejected with 'Invalid download path', no record *)
(* is added to the table and no processing is started, then or later.      *)
(***************************************************************************)
C32_Step ==
    \A id \in Ids :
        /\ (pc[id] = "mkpath" /\ pc'[id] # "mkpath" /\ loc'[id].error # <<>>)
              => /\ pc'[id] = "rejected"
                 /\ downloads' = downloads
                 /\ running' = 0
                 /\ reply'.op = "create" /\ reply'.id = id
                 /\ reply'.kind = "Invalid download path"
        /\ pc[id] = "rejected" => pc'[id] = "rejected"
C32_State ==
    \A id \in Ids :
        /\ pc[id] = "mkpath" => id \notin DOMAIN downloads /\ request[id].downloadPath # ""
        /\ pc[id] = "rejected"
              => /\ id \notin DOMAIN downloads
                 /\ request[id].downloadPath # ""
                 /\ returned[id] = <<>>
                 /\ lookups[id] = {}
                 /\ fetchLog[id] = <<>>
                 /\ exportLog[id] = <<>>
C32_InvalidDownloadPath == []C32_State /\ [][C32_Step]_vars

\* a call with a custom path was rejected
C32_Witness ==
    \E id \in Ids :
        /\ pc[id] = "rejected"
        /\ request[id].downloadPath = "custom"
        /\ downloads = <<>>
        /\ reply.op = "create" /\ reply.kind = "Invalid download path"

(***************************************************************************)
(* C40: a cleanupOldDownloads call that ends, also one that was suspended  *)
(* while other calls ran, ends by returning, not with an error, and leaves *)
(* no download in the table that was older than the retention window when  *)
(* the call was made.                                                      *)
(***************************************************************************)
C40_SweepCompletes ==
    [][(/\ sweep'.step = "none"
        /\ reply'.op = "cleanup"
        /\ sweep.step = "run" \/ reply' # reply)
       => LET at == IF sweep.step = "run" THEN sweep.now ELSE now
          IN  /\ reply'.kind = "returned"
              /\ \A id \in DOMAIN downloads' :
                    ~(at - downloads'[id].createdAt > retentionMs)
      ]_vars

(***************************************************************************)
(* C37: every session that was launched and is still alive is the one      *)
(* this.browser refers to, whatever getPage calls and cleanup do at the    *)
(* same time.                                                              *)
(***************************************************************************)
C37_LiveSessionIsReferenced == \A s \in connected : s = browser

(***************************************************************************)
(* C38: a getPage call never returns a page that a cleanup call has        *)
(* invoked close on.                                                       *)
(***************************************************************************)
C38_NoClosingPageReturned ==
    [][\A c \in Callers :
          (cpc'[c] = "holding" /\ cpc[c] # "holding")
          => held'[c] \notin shutdown.invoked]_vars

(***************************************************************************)
(* C39: the page a getPage call takes from the pool has no preload script  *)
(* registered on it.                                                       *)
(***************************************************************************)
C39_PooledPageIsClean ==
    [][\A c \in Callers :
          (cpc[c] \in {"idle", "waiting"} /\ cpc'[c] = "holding")
          => held'[c] \notin preloads]_vars

====
